---- MODULE Spec2Model ----
(***************************************************************************)
(* Shade agent contract: approval registry, agent registry, authorization  *)
(* gate (require_valid_agent) and signature dispatch.  One call is         *)
(* processed to completion before the next begins; a panic reverts every   *)
(* state change of the call.                                               *)
(***************************************************************************)
EXTENDS Integers, Sequences, FiniteSets, Bags, TLC

\* ------------------------------------------------------------------ bounds
MaxTime == 1

\* ------------------------------------------------------------- value sets
\* Option<T>: the empty sequence is None, <<x>> is Some(x)
None == <<>>
Some(x) == <<x>>

OwnerAccount == "owner.near"
ImplicitA == "implicit_a"
ImplicitB == "implicit_b"
\* identities that call the contract; ImplicitB only appears in quotes
Accounts == {OwnerAccount, ImplicitA}
AccountIds == Accounts \cup {ImplicitB}
MpcAccounts == {"v1.signer", "mpc-contract"}
Durations == {0, 1}

\* A byte array is written as the byte that fills it; mrtd of the
\* non-default bundle has first byte 1.
DefaultMeasurements ==
    [rtmrs |-> [mrtd |-> 0, rtmr0 |-> 0, rtmr1 |-> 0, rtmr2 |-> 0],
     key_provider_event_digest |-> 0,
     app_compose_hash_payload |-> 0]
NonDefaultMeasurements ==
    [rtmrs |-> [mrtd |-> 1, rtmr0 |-> 0, rtmr1 |-> 0, rtmr2 |-> 0],
     key_provider_event_digest |-> 0,
     app_compose_hash_payload |-> 0]
Measurements == {DefaultMeasurements, NonDefaultMeasurements}

DefaultPpid == 0
NonDefaultPpid == 1
Ppids == {DefaultPpid, NonDefaultPpid}

STORAGE_BYTES_TO_REGISTER == 486
storage_byte_cost == 1
Deposits == {STORAGE_BYTES_TO_REGISTER * storage_byte_cost - 1,
             STORAGE_BYTES_TO_REGISTER * storage_byte_cost}

KeyTypes == {"Ecdsa", "Eddsa", "invalid"}
Paths == {"path"}
Payloads == {"test_payload"}

\* ----------------------------------------------------- account id strings
HexDigits == <<"0", "1", "2", "3", "4", "5", "6", "7", "8", "9",
               "a", "b", "c", "d", "e", "f">>

\* AccountId::to_string
account_id_str(a) ==
    CASE a = ImplicitA -> [i \in 1..64 |-> "a"]
      [] a = ImplicitB -> [i \in 1..64 |-> IF i = 64 THEN "b" ELSE "a"]
      [] OTHER -> <<"o", "w", "n", "e", "r", ".", "n", "e", "a", "r">>

is_lower_hexdigit(c) == \E i \in 1..16 : HexDigits[i] = c

HexVal(c) == (CHOOSE i \in 1..16 : HexDigits[i] = c) - 1

is_implicit_account(a) ==
    /\ Len(account_id_str(a)) = 64
    /\ \A i \in 1..64 : is_lower_hexdigit(account_id_str(a)[i])

\* hex::decode
hex_decode(s) ==
    [i \in 1..(Len(s) \div 2) |-> 16 * HexVal(s[2 * i - 1]) + HexVal(s[2 * i])]

\* expected_report_data that copies one byte too few of the account id
expected_report_data_Truncated(a) ==
    LET account_id_bytes == hex_decode(account_id_str(a))
    IN  [i \in 1..64 |-> IF i <= 31 THEN account_id_bytes[i] ELSE 0]

\* account id bytes followed by 32 zero bytes
expected_report_data(a) ==
    LET account_id_bytes == hex_decode(account_id_str(a))
    IN  [i \in 1..64 |-> IF i <= 32 THEN account_id_bytes[i] ELSE 0]

ZeroReportData == [i \in 1..64 |-> 0]

ImplicitAccounts == {a \in AccountIds : is_implicit_account(a)}
ReportDataOf == [a \in ImplicitAccounts |-> expected_report_data(a)]

\* ------------------------------------------------------------ attestations
\* An attestation decodes to (quote validity, report data, measurements,
\* ppid); quote_ok stands for the signature chain and collateral check.
DefaultAttestation ==
    [quote_ok |-> FALSE, report_data |-> ZeroReportData,
     measurements |-> DefaultMeasurements, ppid |-> DefaultPpid]

\* genuine quotes: any bundle and ppid bound to ImplicitA, and one quote
\* bound to ImplicitB
Quotes ==
    {q \in [quote_ok : {TRUE},
            report_data : {ReportDataOf[a] : a \in ImplicitAccounts},
            measurements : Measurements,
            ppid : Ppids] :
        \/ q.report_data = ReportDataOf[ImplicitA]
        \/ q.measurements = DefaultMeasurements /\ q.ppid = DefaultPpid}

ForgedQuote ==
    [quote_ok |-> FALSE, report_data |-> ReportDataOf[ImplicitA],
     measurements |-> DefaultMeasurements, ppid |-> DefaultPpid]

Attestations == Quotes \cup {ForgedQuote, DefaultAttestation}

\* --------------------------------------------------------------- IterableSet
\* unique elements; the iteration order is not part of this model
Contains(s, x) == x \in s

Insert(s, x) == s \cup {x}

Remove(s, x) == s \ {x}

\* Vec<Ppid> arguments: every list of at most two ids
PpidLists == UNION {[1..n -> Ppids] : n \in {0, 1, 2}}

\* ------------------------------------------------------------ contract state
VARIABLES requires_tee, attestation_expiration_time_ms, owner_id,
          mpc_contract_id, approved_measurements, approved_ppids, agents,
          whitelisted_agents_for_local,
          block_timestamp_ms,
          result, events, promise,
          in_flight, event_log, wide

contractVars == <<requires_tee, attestation_expiration_time_ms, owner_id,
                  mpc_contract_id, approved_measurements, approved_ppids,
                  agents, whitelisted_agents_for_local>>
callVars == <<result, events, promise>>
\* in_flight: the calls that were scheduled and have not run yet (a bag);
\* event_log: per identity, how many agent_registered and agent_removed
\* events the contract has logged; wide: the time, the expiration duration
\* and the valid_until_ms of one agent as 64-bit unsigned integers. Spec
\* keeps none of them: they are followed by FlightSpec, by LedgerSpec and by
\* WideSpec.
historyVars == <<in_flight, event_log, wide>>
vars == <<contractVars, block_timestamp_ms, callVars, historyVars>>

\* The Contract struct as one value
Contract ==
    [requires_tee |-> requires_tee,
     attestation_expiration_time_ms |-> attestation_expiration_time_ms,
     owner_id |-> owner_id,
     mpc_contract_id |-> mpc_contract_id,
     approved_measurements |-> approved_measurements,
     approved_ppids |-> approved_ppids,
     agents |-> agents,
     whitelisted_agents_for_local |-> whitelisted_agents_for_local]

EmptyMap == [x \in {} |-> None]

new(tee, expiration, owner, mpc) ==
    [requires_tee |-> tee,
     attestation_expiration_time_ms |-> expiration,
     owner_id |-> owner,
     mpc_contract_id |-> mpc,
     approved_measurements |-> {},
     approved_ppids |-> {},
     agents |-> EmptyMap,
     whitelisted_agents_for_local |-> {}]

\* IterableMap::insert / remove on the agents map
MapInsert(m, k, v) == [x \in DOMAIN m \cup {k} |-> IF x = k THEN v ELSE m[x]]
MapRemove(m, k) == [x \in DOMAIN m \ {k} |-> m[x]]

\* ------------------------------------------------------------- call outcomes
\* A call returns the contract state it commits, its result, the events it
\* logged and the promise it scheduled (a sequence of at most one).
Return(self, res, evs, prom) ==
    [self |-> self, result |-> res, events |-> evs, promise |-> prom]

\* a method that returns nothing completed
Unit == "()"
Ok(self) == Return(self, Unit, <<>>, <<>>)

\* panic / require! failure: the state changes of the call are reverted
Panic(self, msg) == Return(self, msg, <<>>, <<>>)

AgentRegistered(account_id, measurements, ppid, current_time_ms, valid_until_ms) ==
    [event |-> "agent_registered", account_id |-> account_id,
     measurements |-> measurements, ppid |-> ppid,
     current_time_ms |-> current_time_ms, valid_until_ms |-> valid_until_ms]

AgentRemoved(account_id, reasons) ==
    [event |-> "agent_removed", account_id |-> account_id, reasons |-> reasons]

\* ------------------------------------------------------------------ helpers
\* require_owner without the comparison
require_owner_Anyone(self, predecessor) == TRUE

require_owner(self, predecessor) == predecessor = self.owner_id

NotOwner == "Caller is not the owner"

\* removal_reasons without the ppid check
removal_reasons_NoPpidCheck(self, account_id, now) ==
    LET agent == self.agents[account_id]
    IN  (IF agent.valid_until_ms < now THEN <<"ExpiredAttestation">> ELSE <<>>)
        \o (IF ~Contains(self.approved_measurements, agent.measurements)
            THEN <<"InvalidMeasurements">> ELSE <<>>)
        \o (IF ~self.requires_tee
               /\ ~Contains(self.whitelisted_agents_for_local, account_id)
            THEN <<"NotWhitelistedForLocal">> ELSE <<>>)

\* removal_reasons that stops at the first failing check
removal_reasons_ShortCircuit(self, account_id, now) ==
    LET agent == self.agents[account_id]
    IN  IF agent.valid_until_ms < now THEN <<"ExpiredAttestation">>
        ELSE IF ~Contains(self.approved_measurements, agent.measurements)
            THEN <<"InvalidMeasurements">>
        ELSE IF ~Contains(self.approved_ppids, agent.ppid)
            THEN <<"InvalidPpid">>
        ELSE IF ~self.requires_tee
                /\ ~Contains(self.whitelisted_agents_for_local, account_id)
            THEN <<"NotWhitelistedForLocal">>
        ELSE <<>>

\* removal_reasons without the local whitelist check
removal_reasons_NoWhitelistCheck(self, account_id, now) ==
    LET agent == self.agents[account_id]
    IN  (IF agent.valid_until_ms < now THEN <<"ExpiredAttestation">> ELSE <<>>)
        \o (IF ~Contains(self.approved_measurements, agent.measurements)
            THEN <<"InvalidMeasurements">> ELSE <<>>)
        \o (IF ~Contains(self.approved_ppids, agent.ppid)
            THEN <<"InvalidPpid">> ELSE <<>>)

\* reasons pushed by require_valid_agent, in the order of the checks
removal_reasons(self, account_id, now) ==
    LET agent == self.agents[account_id]
    IN  (IF agent.valid_until_ms < now THEN <<"ExpiredAttestation">> ELSE <<>>)
        \o (IF ~Contains(self.approved_measurements, agent.measurements)
            THEN <<"InvalidMeasurements">> ELSE <<>>)
        \o (IF ~Contains(self.approved_ppids, agent.ppid)
            THEN <<"InvalidPpid">> ELSE <<>>)
        \o (IF ~self.requires_tee
               /\ ~Contains(self.whitelisted_agents_for_local, account_id)
            THEN <<"NotWhitelistedForLocal">> ELSE <<>>)

\* env::current_account_id(): the contract's own account
CurrentAccount == "current_account"

fail_on_invalid_agent_promise(reasons) ==
    [method |-> "fail_on_invalid_agent", receiver |-> CurrentAccount,
     reasons |-> reasons]

\* require_valid_agent that reports the invalid agent but keeps its record
require_valid_agent_KeepsRecord(self, account_id, now) ==
    IF account_id \notin DOMAIN self.agents
    THEN Panic(self, "Agent not registered")
    ELSE LET reasons == removal_reasons(self, account_id, now)
         IN  IF reasons # <<>>
             THEN Return(self,
                         "promise",
                         <<AgentRemoved(account_id, reasons)>>,
                         <<fail_on_invalid_agent_promise(reasons)>>)
             ELSE Ok(self)

\* require_valid_agent that lets a caller without a record through
require_valid_agent_NoRecordPasses(self, account_id, now) ==
    IF account_id \notin DOMAIN self.agents
    THEN Ok(self)
    ELSE LET reasons == removal_reasons(self, account_id, now)
         IN  IF reasons # <<>>
             THEN Return([self EXCEPT !.agents = MapRemove(self.agents, account_id)],
                         "promise",
                         <<AgentRemoved(account_id, reasons)>>,
                         <<fail_on_invalid_agent_promise(reasons)>>)
             ELSE Ok(self)

\* require_valid_agent that removes the record before it looks at the reasons
require_valid_agent_AlwaysRemoves(self, account_id, now) ==
    IF account_id \notin DOMAIN self.agents
    THEN Panic(self, "Agent not registered")
    ELSE LET reasons == removal_reasons(self, account_id, now)
             removed == [self EXCEPT !.agents = MapRemove(self.agents, account_id)]
         IN  IF reasons # <<>>
             THEN Return(removed,
                         "promise",
                         <<AgentRemoved(account_id, reasons)>>,
                         <<fail_on_invalid_agent_promise(reasons)>>)
             ELSE Ok(removed)

\* require_valid_agent that renews the record of an agent it lets through
require_valid_agent_RenewsRecord(self, account_id, now) ==
    IF account_id \notin DOMAIN self.agents
    THEN Panic(self, "Agent not registered")
    ELSE LET reasons == removal_reasons(self, account_id, now)
         IN  IF reasons # <<>>
             THEN Return([self EXCEPT !.agents = MapRemove(self.agents, account_id)],
                         "promise",
                         <<AgentRemoved(account_id, reasons)>>,
                         <<fail_on_invalid_agent_promise(reasons)>>)
             ELSE Ok([self EXCEPT !.agents[account_id].valid_until_ms =
                                      now + self.attestation_expiration_time_ms])

\* Returns the failing promise when the agent is invalid, no promise if valid
require_valid_agent(self, account_id, now) ==
    IF account_id \notin DOMAIN self.agents
    THEN Panic(self, "Agent not registered")
    ELSE LET reasons == removal_reasons(self, account_id, now)
         IN  IF reasons # <<>>
             THEN Return([self EXCEPT !.agents = MapRemove(self.agents, account_id)],
                         "promise",
                         <<AgentRemoved(account_id, reasons)>>,
                         <<fail_on_invalid_agent_promise(reasons)>>)
             ELSE Ok(self)

\* ------------------------------------------------------------- attestation
VerifyOk(measurements, ppid) ==
    [ok |-> TRUE, error |-> "", measurements |-> measurements, ppid |-> ppid]
VerifyErr(msg) ==
    [ok |-> FALSE, error |-> msg,
     measurements |-> DefaultMeasurements, ppid |-> DefaultPpid]

\* DstackAttestation::verify
verify(attestation, report_data, expected_measurements, expected_ppids) ==
    IF ~attestation.quote_ok
        THEN VerifyErr("Attestation verification failed: BadSignature")
    ELSE IF attestation.report_data # report_data
        THEN VerifyErr("Attestation verification failed: IdentityMismatch")
    ELSE IF ~Contains(expected_measurements, attestation.measurements)
        THEN VerifyErr("Attestation verification failed: MeasurementNotApproved")
    ELSE IF ~Contains(expected_ppids, attestation.ppid)
        THEN VerifyErr("Attestation verification failed: PlatformNotApproved")
    ELSE VerifyOk(attestation.measurements, attestation.ppid)

verify_attestation_tee(self, predecessor, attestation) ==
    IF predecessor \notin ImplicitAccounts
    THEN VerifyErr("Account ID must be implicit account")
    ELSE verify(attestation, ReportDataOf[predecessor],
                self.approved_measurements, self.approved_ppids)

verify_attestation_local(self, predecessor) ==
    IF ~Contains(self.whitelisted_agents_for_local, predecessor)
        THEN VerifyErr("Agent needs to be whitelisted for local mode")
    ELSE IF ~Contains(self.approved_measurements, DefaultMeasurements)
        THEN VerifyErr("Default measurements must be approved for local mode")
    ELSE IF ~Contains(self.approved_ppids, DefaultPpid)
        THEN VerifyErr("Default PPID must be approved for local mode")
    ELSE VerifyOk(DefaultMeasurements, DefaultPpid)

verify_attestation(self, predecessor, attestation) ==
    IF self.requires_tee
    THEN verify_attestation_tee(self, predecessor, attestation)
    ELSE verify_attestation_local(self, predecessor)

\* ------------------------------------------------------------ agent methods
\* register_agent that has written the record when verification fails
register_agent_WritesBeforeVerify(self, predecessor, now, attached_deposit, attestation) ==
    LET storage_cost == storage_byte_cost * STORAGE_BYTES_TO_REGISTER
        verified == verify_attestation(self, predecessor, attestation)
        valid_until_ms == now + self.attestation_expiration_time_ms
        written == [self EXCEPT !.agents =
                        MapInsert(self.agents, predecessor,
                                  [measurements |-> verified.measurements,
                                   ppid |-> verified.ppid,
                                   valid_until_ms |-> valid_until_ms])]
    IN  IF ~(attached_deposit >= storage_cost)
            THEN Panic(self, "Attached deposit must be greater than storage cost")
        ELSE IF ~verified.ok
            THEN Return(written, verified.error, <<>>, <<>>)
        ELSE Return(written,
                    "true",
                    <<AgentRegistered(predecessor, verified.measurements,
                                      verified.ppid, now, valid_until_ms)>>,
                    <<>>)

\* register_agent that never calls verify_attestation
register_agent_SkipsVerification(self, predecessor, now, attached_deposit, attestation) ==
    LET storage_cost == storage_byte_cost * STORAGE_BYTES_TO_REGISTER
        valid_until_ms == now + self.attestation_expiration_time_ms
    IN  IF ~(attached_deposit >= storage_cost)
            THEN Panic(self, "Attached deposit must be greater than storage cost")
        ELSE Return([self EXCEPT !.agents =
                        MapInsert(self.agents, predecessor,
                                  [measurements |-> attestation.measurements,
                                   ppid |-> attestation.ppid,
                                   valid_until_ms |-> valid_until_ms])],
                    "true",
                    <<AgentRegistered(predecessor, attestation.measurements,
                                      attestation.ppid, now, valid_until_ms)>>,
                    <<>>)

\* register_agent that stores what the attestation claims, not what was verified
register_agent_StoresClaimed(self, predecessor, now, attached_deposit, attestation) ==
    LET storage_cost == storage_byte_cost * STORAGE_BYTES_TO_REGISTER
        verified == verify_attestation(self, predecessor, attestation)
        valid_until_ms == now + self.attestation_expiration_time_ms
    IN  IF ~(attached_deposit >= storage_cost)
            THEN Panic(self, "Attached deposit must be greater than storage cost")
        ELSE IF ~verified.ok
            THEN Panic(self, verified.error)
        ELSE Return([self EXCEPT !.agents =
                        MapInsert(self.agents, predecessor,
                                  [measurements |-> attestation.measurements,
                                   ppid |-> attestation.ppid,
                                   valid_until_ms |-> valid_until_ms])],
                    "true",
                    <<AgentRegistered(predecessor, attestation.measurements,
                                      attestation.ppid, now, valid_until_ms)>>,
                    <<>>)

\* register_agent that extends the previous valid_until_ms of a registered caller
register_agent_Cumulative(self, predecessor, now, attached_deposit, attestation) ==
    LET verified == verify_attestation(self, predecessor, attestation)
        base == IF predecessor \in DOMAIN self.agents
                THEN self.agents[predecessor].valid_until_ms ELSE now
        valid_until_ms == base + self.attestation_expiration_time_ms
    IN  IF ~(attached_deposit >= storage_byte_cost * STORAGE_BYTES_TO_REGISTER)
            THEN Panic(self, "Attached deposit must be greater than storage cost")
        ELSE IF ~verified.ok
            THEN Panic(self, verified.error)
        ELSE Return([self EXCEPT !.agents =
                        MapInsert(self.agents, predecessor,
                                  [measurements |-> verified.measurements,
                                   ppid |-> verified.ppid,
                                   valid_until_ms |-> valid_until_ms])],
                    "true",
                    <<AgentRegistered(predecessor, verified.measurements,
                                      verified.ppid, now, valid_until_ms)>>,
                    <<>>)

\* register_agent that asks no deposit of a caller that already has a record
register_agent_FreeReRegistration(self, predecessor, now, attached_deposit, attestation) ==
    LET storage_cost == storage_byte_cost * STORAGE_BYTES_TO_REGISTER
        verified == verify_attestation(self, predecessor, attestation)
        valid_until_ms == now + self.attestation_expiration_time_ms
    IN  IF predecessor \notin DOMAIN self.agents /\ ~(attached_deposit >= storage_cost)
            THEN Panic(self, "Attached deposit must be greater than storage cost")
        ELSE IF ~verified.ok
            THEN Panic(self, verified.error)
        ELSE Return([self EXCEPT !.agents =
                        MapInsert(self.agents, predecessor,
                                  [measurements |-> verified.measurements,
                                   ppid |-> verified.ppid,
                                   valid_until_ms |-> valid_until_ms])],
                    "true",
                    <<AgentRegistered(predecessor, verified.measurements,
                                      verified.ppid, now, valid_until_ms)>>,
                    <<>>)

register_agent(self, predecessor, now, attached_deposit, attestation) ==
    LET storage_cost == storage_byte_cost * STORAGE_BYTES_TO_REGISTER
        verified == verify_attestation(self, predecessor, attestation)
        valid_until_ms == now + self.attestation_expiration_time_ms
    IN  IF ~(attached_deposit >= storage_cost)
            THEN Panic(self, "Attached deposit must be greater than storage cost")
        ELSE IF ~verified.ok
            THEN Panic(self, verified.error)
        ELSE Return([self EXCEPT !.agents =
                        MapInsert(self.agents, predecessor,
                                  [measurements |-> verified.measurements,
                                   ppid |-> verified.ppid,
                                   valid_until_ms |-> valid_until_ms])],
                    "true",
                    <<AgentRegistered(predecessor, verified.measurements,
                                      verified.ppid, now, valid_until_ms)>>,
                    <<>>)

sign_promise(receiver, agent, path, payload, domain_id) ==
    [method |-> "sign", receiver |-> receiver, agent |-> agent,
     path |-> path, payload |-> payload, domain_id |-> domain_id]

internal_request_signature(self, predecessor, path, payload, key_type) ==
    IF key_type = "Ecdsa"
        THEN Return(self, "promise", <<>>,
                    <<sign_promise(self.mpc_contract_id, predecessor, path, payload, 0)>>)
    ELSE IF key_type = "Eddsa"
        THEN Return(self, "promise", <<>>,
                    <<sign_promise(self.mpc_contract_id, predecessor, path, payload, 1)>>)
    ELSE Panic(self, "Invalid key type")

\* request_signature that validates the key type before it runs the gate
request_signature_KeyTypeFirst(self, predecessor, now, path, payload, key_type) ==
    LET gate == require_valid_agent(self, predecessor, now)
    IN  IF key_type \notin {"Ecdsa", "Eddsa"}
        THEN Panic(self, "Invalid key type")
        ELSE IF gate.result # Unit
        THEN gate
        ELSE internal_request_signature(gate.self, predecessor, path, payload, key_type)

\* request_signature that passes payload and path in each other's place
request_signature_SwapsArguments(self, predecessor, now, path, payload, key_type) ==
    LET gate == require_valid_agent(self, predecessor, now)
    IN  IF gate.result # Unit
        THEN gate
        ELSE internal_request_signature(gate.self, predecessor, payload, path, key_type)

request_signature(self, predecessor, now, path, payload, key_type) ==
    LET gate == require_valid_agent(self, predecessor, now)
    IN  IF gate.result # Unit
        THEN gate
        ELSE internal_request_signature(gate.self, predecessor, path, payload, key_type)

\* update_attestation_expiration_time that also re-bases the stored records
update_attestation_expiration_time_Rebases(self, predecessor, expiration) ==
    IF ~require_owner(self, predecessor) THEN Panic(self, NotOwner)
    ELSE Ok([self EXCEPT !.attestation_expiration_time_ms = expiration,
                         !.agents = [a \in DOMAIN self.agents |->
                                        [self.agents[a] EXCEPT
                                            !.valid_until_ms = @ + expiration]]])

\* ------------------------------------------------------------ owner methods
update_attestation_expiration_time(self, predecessor, expiration) ==
    IF ~require_owner(self, predecessor) THEN Panic(self, NotOwner)
    ELSE Ok([self EXCEPT !.attestation_expiration_time_ms = expiration])

\* update_owner_id that also makes the new owner the signer endpoint
update_owner_id_TakesEndpoint(self, predecessor, new_owner_id) ==
    IF ~require_owner(self, predecessor) THEN Panic(self, NotOwner)
    ELSE Ok([self EXCEPT !.owner_id = new_owner_id,
                         !.mpc_contract_id = new_owner_id])

\* update_owner_id that checks the caller but never assigns
update_owner_id_KeepsOwner(self, predecessor, new_owner_id) ==
    IF ~require_owner(self, predecessor) THEN Panic(self, NotOwner)
    ELSE Ok(self)

update_owner_id(self, predecessor, new_owner_id) ==
    IF ~require_owner(self, predecessor) THEN Panic(self, NotOwner)
    ELSE Ok([self EXCEPT !.owner_id = new_owner_id])

\* update_mpc_contract_id that checks the caller but never assigns
update_mpc_contract_id_KeepsEndpoint(self, predecessor, new_mpc_contract_id) ==
    IF ~require_owner(self, predecessor) THEN Panic(self, NotOwner)
    ELSE Ok(self)

update_mpc_contract_id(self, predecessor, new_mpc_contract_id) ==
    IF ~require_owner(self, predecessor) THEN Panic(self, NotOwner)
    ELSE Ok([self EXCEPT !.mpc_contract_id = new_mpc_contract_id])

\* approve_measurements that refuses a bundle that is already approved
approve_measurements_RejectsDuplicate(self, predecessor, measurements) ==
    IF ~require_owner(self, predecessor) THEN Panic(self, NotOwner)
    ELSE IF Contains(self.approved_measurements, measurements)
        THEN Panic(self, "Measurements already approved")
    ELSE Ok([self EXCEPT !.approved_measurements = Insert(@, measurements)])

approve_measurements(self, predecessor, measurements) ==
    IF ~require_owner(self, predecessor) THEN Panic(self, NotOwner)
    ELSE Ok([self EXCEPT !.approved_measurements = Insert(@, measurements)])

\* remove_measurements that also drops the records registered with the bundle
remove_measurements_Cascades(self, predecessor, measurements) ==
    IF ~require_owner(self, predecessor) THEN Panic(self, NotOwner)
    ELSE IF ~Contains(self.approved_measurements, measurements)
        THEN Panic(self, "Measurements not in approved list")
    ELSE Ok([self EXCEPT
                !.approved_measurements = Remove(@, measurements),
                !.agents = [a \in {x \in DOMAIN self.agents :
                                      self.agents[x].measurements # measurements}
                            |-> self.agents[a]]])

\* remove_measurements that returns quietly when the bundle is absent
remove_measurements_Silent(self, predecessor, measurements) ==
    IF ~require_owner(self, predecessor) THEN Panic(self, NotOwner)
    ELSE Ok([self EXCEPT !.approved_measurements = Remove(@, measurements)])

remove_measurements(self, predecessor, measurements) ==
    IF ~require_owner(self, predecessor) THEN Panic(self, NotOwner)
    ELSE IF ~Contains(self.approved_measurements, measurements)
        THEN Panic(self, "Measurements not in approved list")
    ELSE Ok([self EXCEPT !.approved_measurements = Remove(@, measurements)])

RECURSIVE InsertAll(_, _)
InsertAll(set, ids) ==
    IF ids = <<>> THEN set
    ELSE InsertAll(Insert(set, Head(ids)), Tail(ids))

approve_ppids(self, predecessor, ppids) ==
    IF ~require_owner(self, predecessor) THEN Panic(self, NotOwner)
    ELSE Ok([self EXCEPT !.approved_ppids = InsertAll(@, ppids)])

\* the loop of remove_ppids: each id must be present when its turn comes
RECURSIVE RemoveAll(_, _)
RemoveAll(set, ids) ==
    IF ids = <<>> THEN [ok |-> TRUE, set |-> set]
    ELSE IF ~Contains(set, Head(ids)) THEN [ok |-> FALSE, set |-> set]
    ELSE RemoveAll(Remove(set, Head(ids)), Tail(ids))

\* remove_ppids whose failure keeps the removals made before the absent id
remove_ppids_Partial(self, predecessor, ppids) ==
    IF ~require_owner(self, predecessor) THEN Panic(self, NotOwner)
    ELSE LET removed == RemoveAll(self.approved_ppids, ppids)
         IN  IF ~removed.ok
             THEN Panic([self EXCEPT !.approved_ppids = removed.set],
                        "PPID not in approved list")
             ELSE Ok([self EXCEPT !.approved_ppids = removed.set])

\* remove_ppids that passes over an id that is not in the set
remove_ppids_SkipsAbsent(self, predecessor, ppids) ==
    IF ~require_owner(self, predecessor) THEN Panic(self, NotOwner)
    ELSE Ok([self EXCEPT !.approved_ppids = @ \ {ppids[i] : i \in DOMAIN ppids}])

remove_ppids(self, predecessor, ppids) ==
    IF ~require_owner(self, predecessor) THEN Panic(self, NotOwner)
    ELSE LET removed == RemoveAll(self.approved_ppids, ppids)
         IN  IF ~removed.ok THEN Panic(self, "PPID not in approved list")
             ELSE Ok([self EXCEPT !.approved_ppids = removed.set])

\* remove_agent that returns quietly when there is no record
remove_agent_Silent(self, predecessor, account_id) ==
    IF ~require_owner(self, predecessor) THEN Panic(self, NotOwner)
    ELSE Return([self EXCEPT !.agents = MapRemove(@, account_id)],
                Unit,
                <<AgentRemoved(account_id, <<"ManualRemoval">>)>>,
                <<>>)

\* remove_agent that deletes the record and emits no event
remove_agent_NoEvent(self, predecessor, account_id) ==
    IF ~require_owner(self, predecessor) THEN Panic(self, NotOwner)
    ELSE IF account_id \notin DOMAIN self.agents
        THEN Panic(self, "Agent not registered")
    ELSE Ok([self EXCEPT !.agents = MapRemove(@, account_id)])

remove_agent(self, predecessor, account_id) ==
    IF ~require_owner(self, predecessor) THEN Panic(self, NotOwner)
    ELSE IF account_id \notin DOMAIN self.agents
        THEN Panic(self, "Agent not registered")
    ELSE Return([self EXCEPT !.agents = MapRemove(@, account_id)],
                Unit,
                <<AgentRemoved(account_id, <<"ManualRemoval">>)>>,
                <<>>)

\* whitelist_agent_for_local without the mode check
whitelist_agent_for_local_AnyMode(self, predecessor, account_id) ==
    IF ~require_owner(self, predecessor) THEN Panic(self, NotOwner)
    ELSE Ok([self EXCEPT !.whitelisted_agents_for_local = Insert(@, account_id)])

\* whitelist_agent_for_local that also stores a record for the identity
whitelist_agent_for_local_CreatesRecord(self, predecessor, account_id) ==
    IF self.requires_tee
        THEN Panic(self, "Whitelisting agents is not supported for TEE")
    ELSE IF ~require_owner(self, predecessor) THEN Panic(self, NotOwner)
    ELSE Ok([self EXCEPT !.whitelisted_agents_for_local = Insert(@, account_id),
                         !.agents = MapInsert(@, account_id,
                                        [measurements |-> DefaultMeasurements,
                                         ppid |-> DefaultPpid,
                                         valid_until_ms |-> 0])])

whitelist_agent_for_local(self, predecessor, account_id) ==
    IF self.requires_tee
        THEN Panic(self, "Whitelisting agents is not supported for TEE")
    ELSE IF ~require_owner(self, predecessor) THEN Panic(self, NotOwner)
    ELSE Ok([self EXCEPT !.whitelisted_agents_for_local = Insert(@, account_id)])

remove_agent_from_whitelist_for_local(self, predecessor, account_id) ==
    IF self.requires_tee
        THEN Panic(self, "Removing agents is not supported for TEE")
    ELSE IF ~require_owner(self, predecessor) THEN Panic(self, NotOwner)
    ELSE IF ~Contains(self.whitelisted_agents_for_local, account_id)
        THEN Panic(self, "Agent not in whitelist for local")
    ELSE Ok([self EXCEPT !.whitelisted_agents_for_local = Remove(@, account_id)])

\* ------------------------------------------------------------------ actions
\* One call processed to completion: commit the returned state and record
\* what the call returned, logged and scheduled.
CommitCall(out) ==
    /\ requires_tee' = out.self.requires_tee
    /\ attestation_expiration_time_ms' = out.self.attestation_expiration_time_ms
    /\ owner_id' = out.self.owner_id
    /\ mpc_contract_id' = out.self.mpc_contract_id
    /\ approved_measurements' = out.self.approved_measurements
    /\ approved_ppids' = out.self.approved_ppids
    /\ agents' = out.self.agents
    /\ whitelisted_agents_for_local' = out.self.whitelisted_agents_for_local
    /\ result' = out.result
    /\ events' = out.events
    /\ promise' = out.promise
    /\ UNCHANGED block_timestamp_ms

Commit(out) ==
    /\ CommitCall(out)
    /\ UNCHANGED historyVars

\* ------------------------------------------------------------------- u64
\* A u64 is four 16-bit limbs, least significant first.
U64Bits == 64
LimbBase == 2^16
Limbs == U64Bits \div 16

U64Zero == [i \in 1..Limbs |-> 0]
U64One == [i \in 1..Limbs |-> IF i = 1 THEN 1 ELSE 0]
U64Max == [i \in 1..Limbs |-> LimbBase - 1]
U64MaxLessOne == [i \in 1..Limbs |-> IF i = 1 THEN LimbBase - 2 ELSE LimbBase - 1]
U64Half == [i \in 1..Limbs |-> IF i = Limbs THEN LimbBase \div 2 ELSE 0]

\* the carry out of limb i of a + b
RECURSIVE Carry(_, _, _)
Carry(a, b, i) ==
    IF i = 0 THEN 0 ELSE (a[i] + b[i] + Carry(a, b, i - 1)) \div LimbBase

\* a + b in 64 bits, wrapped, and whether the sum did not fit
wrapping_add(a, b) ==
    [i \in 1..Limbs |-> (a[i] + b[i] + Carry(a, b, i - 1)) % LimbBase]

overflows(a, b) == Carry(a, b, Limbs) = 1

\* a < b
RECURSIVE LessFrom(_, _, _)
LessFrom(a, b, i) ==
    IF i = 0 THEN FALSE
    ELSE IF a[i] # b[i] THEN a[i] < b[i]
    ELSE LessFrom(a, b, i - 1)

U64Less(a, b) == LessFrom(a, b, Limbs)

\* `a + b` on u64: with overflow checks compiled in, a sum that does not fit
\* panics; without them it wraps. Which of the two the contract is built with
\* is set by the build profile.
add_u64(a, b, overflow_checks) ==
    IF overflows(a, b) /\ overflow_checks
    THEN [panic |-> TRUE, value |-> U64Zero]
    ELSE [panic |-> FALSE, value |-> wrapping_add(a, b)]

\* the times and durations followed at full width
WideValues == {U64Zero, U64One, U64Half, U64MaxLessOne, U64Max}

\* the 64-bit quantities of the contract and of one agent's record
\* (valid_until_ms, with the time it was registered at)
WideNew(overflow_checks) ==
    [overflow_checks |-> overflow_checks,
     block_timestamp_ms |-> U64Zero,
     attestation_expiration_time_ms |-> U64Zero,
     agent |-> None,
     result |-> Unit]

\* register_agent, as far as valid_until_ms goes
wide_register_agent(w) ==
    LET valid_until_ms == add_u64(w.block_timestamp_ms,
                                  w.attestation_expiration_time_ms,
                                  w.overflow_checks)
    IN  IF valid_until_ms.panic
        THEN [w EXCEPT !.result = "attempt to add with overflow"]
        ELSE [w EXCEPT !.agent = Some([valid_until_ms |-> valid_until_ms.value,
                                       registered_ms |-> w.block_timestamp_ms]),
                       !.result = "true"]

\* require_valid_agent, as far as valid_until_ms goes
wide_require_valid_agent(w) ==
    IF w.agent = None THEN [w EXCEPT !.result = "Agent not registered"]
    ELSE IF U64Less(w.agent[1].valid_until_ms, w.block_timestamp_ms)
        THEN [w EXCEPT !.agent = None, !.result = "ExpiredAttestation"]
    ELSE [w EXCEPT !.result = "promise"]

Init ==
    \E tee \in BOOLEAN, expiration \in Durations :
        LET self == new(tee, expiration, OwnerAccount, "mpc-contract")
        IN  /\ requires_tee = self.requires_tee
            /\ attestation_expiration_time_ms = self.attestation_expiration_time_ms
            /\ owner_id = self.owner_id
            /\ mpc_contract_id = self.mpc_contract_id
            /\ approved_measurements = self.approved_measurements
            /\ approved_ppids = self.approved_ppids
            /\ agents = self.agents
            /\ whitelisted_agents_for_local = self.whitelisted_agents_for_local
            /\ block_timestamp_ms = 0
            /\ result = Unit
            /\ events = <<>>
            /\ promise = <<>>
            /\ in_flight = EmptyBag
            /\ event_log = [a \in Accounts |-> [registered |-> 0, removed |-> 0]]
            /\ wide = WideNew(TRUE)

RegisterAgent ==
    \E predecessor \in Accounts, deposit \in Deposits, attestation \in Attestations :
        Commit(register_agent(Contract, predecessor, block_timestamp_ms,
                              deposit, attestation))

RequestSignature ==
    \E predecessor \in Accounts, path \in Paths, payload \in Payloads,
       key_type \in KeyTypes :
        Commit(request_signature(Contract, predecessor, block_timestamp_ms,
                                 path, payload, key_type))

UpdateAttestationExpirationTime ==
    \E predecessor \in Accounts, expiration \in Durations :
        Commit(update_attestation_expiration_time(Contract, predecessor, expiration))

UpdateOwnerId ==
    \E predecessor \in Accounts, new_owner_id \in Accounts :
        Commit(update_owner_id(Contract, predecessor, new_owner_id))

UpdateMpcContractId ==
    \E predecessor \in Accounts, new_mpc_contract_id \in MpcAccounts :
        Commit(update_mpc_contract_id(Contract, predecessor, new_mpc_contract_id))

ApproveMeasurements ==
    \E predecessor \in Accounts, measurements \in Measurements :
        Commit(approve_measurements(Contract, predecessor, measurements))

RemoveMeasurements ==
    \E predecessor \in Accounts, measurements \in Measurements :
        Commit(remove_measurements(Contract, predecessor, measurements))

ApprovePpids ==
    \E predecessor \in Accounts, ppids \in PpidLists :
        Commit(approve_ppids(Contract, predecessor, ppids))

RemovePpids ==
    \E predecessor \in Accounts, ppids \in PpidLists :
        Commit(remove_ppids(Contract, predecessor, ppids))

RemoveAgent ==
    \E predecessor \in Accounts, account_id \in Accounts :
        Commit(remove_agent(Contract, predecessor, account_id))

WhitelistAgentForLocal ==
    \E predecessor \in Accounts, account_id \in Accounts :
        Commit(whitelist_agent_for_local(Contract, predecessor, account_id))

RemoveAgentFromWhitelistForLocal ==
    \E predecessor \in Accounts, account_id \in Accounts :
        Commit(remove_agent_from_whitelist_for_local(Contract, predecessor, account_id))

\* The delegated call fails at the signer endpoint (no such account): the
\* contract registered no callback, so none of its code runs and the caller
\* sees the error of the external call.
ExternalCallError == "AccountDoesNotExist"

signer_failed(self, call) == Return(self, ExternalCallError, <<>>, <<>>)

SignerFails ==
    /\ promise # <<>>
    /\ promise[1].method = "sign"
    /\ Commit(signer_failed(Contract, promise[1]))

\* The block time moves on; the outcome of the last call belongs to the
\* moment it was processed at.
AdvanceTime ==
    /\ block_timestamp_ms < MaxTime
    /\ block_timestamp_ms' = block_timestamp_ms + 1
    /\ result' = Unit
    /\ events' = <<>>
    /\ promise' = <<>>
    /\ UNCHANGED contractVars
    /\ UNCHANGED historyVars

Next ==
    \/ RegisterAgent
    \/ RequestSignature
    \/ UpdateAttestationExpirationTime
    \/ UpdateOwnerId
    \/ UpdateMpcContractId
    \/ ApproveMeasurements
    \/ RemoveMeasurements
    \/ ApprovePpids
    \/ RemovePpids
    \/ RemoveAgent
    \/ WhitelistAgentForLocal
    \/ RemoveAgentFromWhitelistForLocal
    \/ SignerFails
    \/ AdvanceTime

Spec == Init /\ [][Next]_vars

\* ---------------------------------------------------------- scheduled calls
\* A promise returned by a call is scheduled: it runs in a later block, after
\* any number of other calls. FlightSpec follows the scheduled calls; to keep
\* them few it has one agent, one bundle, one ppid, and owner calls made by
\* the owner.
MaxInFlight == 2

FlightAgents == {ImplicitA}

FlightQuote ==
    [quote_ok |-> TRUE, report_data |-> ReportDataOf[ImplicitA],
     measurements |-> DefaultMeasurements, ppid |-> DefaultPpid]

\* fail_on_invalid_agent that clears the agent records before it panics and
\* whose panic does not undo it
fail_on_invalid_agent_ClearsAgents(self, predecessor, reasons) ==
    IF predecessor # CurrentAccount
    THEN Panic(self, "Method fail_on_invalid_agent is private")
    ELSE Panic([self EXCEPT !.agents = EmptyMap], "Invalid agent")

\* #[private]: only the contract itself may call; then the call panics
fail_on_invalid_agent(self, predecessor, reasons) ==
    IF predecessor # CurrentAccount
    THEN Panic(self, "Method fail_on_invalid_agent is private")
    ELSE Panic(self, "Invalid agent")

\* the delegated call succeeded at the signer: the contract registered no
\* callback, so none of its code runs
signer_replied(self, call) == Return(self, "signature", <<>>, <<>>)

\* AgentRemovalReason values the gate pushes, in the order of its checks
GateReasons == <<"ExpiredAttestation", "InvalidMeasurements", "InvalidPpid",
                 "NotWhitelistedForLocal">>

\* every non-empty reason list the gate can pass to fail_on_invalid_agent
ReasonLists ==
    {LET Chosen(r) == \E i \in S : GateReasons[i] = r
     IN  SelectSeq(GateReasons, Chosen) : S \in SUBSET (1..Len(GateReasons)) \ {{}}}

\* The scheduled form of a promise: the call and the signer of the
\* transaction that scheduled it. A delegated sign call is kept whole. Of the
\* self-call only the method and the receiver are kept: its reasons argument
\* feeds nothing but the panic message, and it is run with every reason list.
Scheduled(signer_id, prom) ==
    SetToBag({[call |-> IF prom[i].method = "sign" THEN prom[i]
                        ELSE [method |-> prom[i].method,
                              receiver |-> prom[i].receiver],
               signer_id |-> signer_id] : i \in DOMAIN prom})

\* Schedule that cancels the scheduled sign calls of an agent left without a
\* record
Schedule_CancelsRevoked(signer_id, out) ==
    LET kept == {c \in BagToSet(in_flight) :
                    c.call.method = "sign" => c.call.agent \in DOMAIN out.self.agents}
    IN  /\ BagCardinality(in_flight) + Len(out.promise) <= MaxInFlight
        /\ CommitCall(out)
        /\ in_flight' = [c \in kept |-> in_flight[c]]
                            (+) Scheduled(signer_id, out.promise)
        /\ UNCHANGED <<event_log, wide>>

\* one call processed to completion; its promise joins the scheduled calls
Schedule(signer_id, out) ==
    /\ BagCardinality(in_flight) + Len(out.promise) <= MaxInFlight
    /\ CommitCall(out)
    /\ in_flight' = in_flight (+) Scheduled(signer_id, out.promise)
    /\ UNCHANGED <<event_log, wide>>

\* a scheduled call runs: it leaves the scheduled calls, and what it does is
\* committed like any call
Run(c, out) ==
    /\ BagIn(c, in_flight)
    /\ CommitCall(out)
    /\ in_flight' = in_flight (-) SetToBag({c})
    /\ UNCHANGED <<event_log, wide>>

FlightInit == Init

FlightRegisterAgent ==
    \E predecessor \in FlightAgents :
        Schedule(predecessor,
                 register_agent(Contract, predecessor, block_timestamp_ms,
                                storage_byte_cost * STORAGE_BYTES_TO_REGISTER,
                                FlightQuote))

FlightRequestSignature ==
    \E predecessor \in FlightAgents :
        Schedule(predecessor,
                 request_signature(Contract, predecessor, block_timestamp_ms,
                                   "path", "test_payload", "Ecdsa"))

FlightUpdateAttestationExpirationTime ==
    \E expiration \in Durations :
        Schedule(owner_id,
                 update_attestation_expiration_time(Contract, owner_id, expiration))

FlightUpdateOwnerId ==
    \E new_owner_id \in Accounts :
        Schedule(owner_id, update_owner_id(Contract, owner_id, new_owner_id))

FlightUpdateMpcContractId ==
    \E new_mpc_contract_id \in MpcAccounts :
        Schedule(owner_id,
                 update_mpc_contract_id(Contract, owner_id, new_mpc_contract_id))

FlightApproveMeasurements ==
    Schedule(owner_id, approve_measurements(Contract, owner_id, DefaultMeasurements))

FlightRemoveMeasurements ==
    Schedule(owner_id, remove_measurements(Contract, owner_id, DefaultMeasurements))

FlightApprovePpids ==
    Schedule(owner_id, approve_ppids(Contract, owner_id, <<DefaultPpid>>))

FlightRemovePpids ==
    Schedule(owner_id, remove_ppids(Contract, owner_id, <<DefaultPpid>>))

FlightRemoveAgent ==
    \E account_id \in FlightAgents :
        Schedule(owner_id, remove_agent(Contract, owner_id, account_id))

FlightWhitelistAgentForLocal ==
    \E account_id \in FlightAgents :
        Schedule(owner_id, whitelist_agent_for_local(Contract, owner_id, account_id))

FlightRemoveAgentFromWhitelistForLocal ==
    \E account_id \in FlightAgents :
        Schedule(owner_id,
                 remove_agent_from_whitelist_for_local(Contract, owner_id, account_id))

\* the scheduled self-call of the gate runs
FailOnInvalidAgent ==
    \E c \in BagToSet(in_flight) :
        /\ c.call.method = "fail_on_invalid_agent"
        /\ \E reasons \in ReasonLists :
              Run(c, fail_on_invalid_agent(Contract, c.call.receiver, reasons))

\* the result of a delegated call arrives
SignerResolves ==
    \E c \in BagToSet(in_flight) :
        /\ c.call.method = "sign"
        /\ \/ Run(c, signer_replied(Contract, c.call))
           \/ Run(c, signer_failed(Contract, c.call))

FlightNext ==
    \/ FlightRegisterAgent
    \/ FlightRequestSignature
    \/ FlightUpdateAttestationExpirationTime
    \/ FlightUpdateOwnerId
    \/ FlightUpdateMpcContractId
    \/ FlightApproveMeasurements
    \/ FlightRemoveMeasurements
    \/ FlightApprovePpids
    \/ FlightRemovePpids
    \/ FlightRemoveAgent
    \/ FlightWhitelistAgentForLocal
    \/ FlightRemoveAgentFromWhitelistForLocal
    \/ FailOnInvalidAgent
    \/ SignerResolves
    \/ AdvanceTime

FlightSpec == FlightInit /\ [][FlightNext]_vars

\* ------------------------------------------------------------- LedgerSpec
\* The contract together with the count of the events it has logged for each
\* identity. Both callers register and request; the owner's calls are made by
\* the owner, on the default bundle and ppid; an identity registers at most
\* MaxRegistrations times.
MaxRegistrations == 2

\* how many events of one kind a list of events holds for an identity
CountOf(evs, kind, a) ==
    Cardinality({i \in DOMAIN evs : evs[i].event = kind /\ evs[i].account_id = a})

\* the event counts after the events of a call are logged
Logged(out) ==
    [a \in Accounts |->
        [registered |-> event_log[a].registered
                            + CountOf(out.events, "agent_registered", a),
         removed |-> event_log[a].removed
                            + CountOf(out.events, "agent_removed", a)]]

\* one call processed to completion; its events join the log
Log(out) ==
    /\ \A a \in Accounts : Logged(out)[a].registered <= MaxRegistrations
    /\ CommitCall(out)
    /\ event_log' = Logged(out)
    /\ UNCHANGED <<in_flight, wide>>

LedgerInit == Init

LedgerRegisterAgent ==
    \E predecessor \in Accounts, attestation \in {FlightQuote, DefaultAttestation} :
        Log(register_agent(Contract, predecessor, block_timestamp_ms,
                           storage_byte_cost * STORAGE_BYTES_TO_REGISTER,
                           attestation))

LedgerRequestSignature ==
    \E predecessor \in Accounts :
        Log(request_signature(Contract, predecessor, block_timestamp_ms,
                              "path", "test_payload", "Ecdsa"))

LedgerUpdateAttestationExpirationTime ==
    \E expiration \in Durations :
        Log(update_attestation_expiration_time(Contract, owner_id, expiration))

LedgerApproveMeasurements ==
    Log(approve_measurements(Contract, owner_id, DefaultMeasurements))

LedgerRemoveMeasurements ==
    Log(remove_measurements(Contract, owner_id, DefaultMeasurements))

LedgerApprovePpids ==
    Log(approve_ppids(Contract, owner_id, <<DefaultPpid>>))

LedgerRemovePpids ==
    Log(remove_ppids(Contract, owner_id, <<DefaultPpid>>))

LedgerRemoveAgent ==
    \E account_id \in Accounts :
        Log(remove_agent(Contract, owner_id, account_id))

LedgerWhitelistAgentForLocal ==
    \E account_id \in Accounts :
        Log(whitelist_agent_for_local(Contract, owner_id, account_id))

LedgerRemoveAgentFromWhitelistForLocal ==
    \E account_id \in Accounts :
        Log(remove_agent_from_whitelist_for_local(Contract, owner_id, account_id))

LedgerNext ==
    \/ LedgerRegisterAgent
    \/ LedgerRequestSignature
    \/ LedgerUpdateAttestationExpirationTime
    \/ LedgerApproveMeasurements
    \/ LedgerRemoveMeasurements
    \/ LedgerApprovePpids
    \/ LedgerRemovePpids
    \/ LedgerRemoveAgent
    \/ LedgerWhitelistAgentForLocal
    \/ LedgerRemoveAgentFromWhitelistForLocal
    \/ AdvanceTime

LedgerSpec == LedgerInit /\ [][LedgerNext]_vars

\* ------------------------------------------------- agent-template contract
\* The earlier iteration of the contract kept under agent-template: its
\* approve_ppids and remove_ppids have the owner check commented out, and its
\* remove_ppids does not look whether an id is present.
agent_template_approve_ppids(self, predecessor, ppids) ==
    Ok([self EXCEPT !.approved_ppids = InsertAll(@, ppids)])

agent_template_remove_ppids(self, predecessor, ppids) ==
    Ok([self EXCEPT !.approved_ppids = @ \ {ppids[i] : i \in DOMAIN ppids}])

\* --------------------------------------------------------------- WideSpec
\* valid_until_ms at its full width: the owner sets any duration, the time
\* moves forward to any later value, one agent registers and requests. The
\* contract is built with or without overflow checks.
WideInit ==
    LET self == new(TRUE, 0, OwnerAccount, "mpc-contract")
    IN  /\ requires_tee = self.requires_tee
        /\ attestation_expiration_time_ms = self.attestation_expiration_time_ms
        /\ owner_id = self.owner_id
        /\ mpc_contract_id = self.mpc_contract_id
        /\ approved_measurements = self.approved_measurements
        /\ approved_ppids = self.approved_ppids
        /\ agents = self.agents
        /\ whitelisted_agents_for_local = self.whitelisted_agents_for_local
        /\ block_timestamp_ms = 0
        /\ result = Unit
        /\ events = <<>>
        /\ promise = <<>>
        /\ in_flight = EmptyBag
        /\ event_log = [a \in Accounts |-> [registered |-> 0, removed |-> 0]]
        /\ \E overflow_checks \in BOOLEAN : wide = WideNew(overflow_checks)

WideStep(w) ==
    /\ wide' = w
    /\ UNCHANGED <<contractVars, block_timestamp_ms, callVars, in_flight, event_log>>

WideUpdateAttestationExpirationTime ==
    \E expiration \in WideValues :
        WideStep([wide EXCEPT !.attestation_expiration_time_ms = expiration,
                              !.result = Unit])

WideAdvanceTime ==
    \E now \in WideValues :
        /\ U64Less(wide.block_timestamp_ms, now)
        /\ WideStep([wide EXCEPT !.block_timestamp_ms = now, !.result = Unit])

WideRegisterAgent == WideStep(wide_register_agent(wide))

WideRequestSignature == WideStep(wide_require_valid_agent(wide))

WideNext ==
    \/ WideUpdateAttestationExpirationTime
    \/ WideAdvanceTime
    \/ WideRegisterAgent
    \/ WideRequestSignature

WideSpec == WideInit /\ [][WideNext]_vars

\* =================================================================== claims
Range(s) == {s[i] : i \in 1..Len(s)}

\* The calls that can be made depend on the contract state and the block
\* time only, not on the outcome of the last call. Quiet: no outcome is
\* recorded. QuietTwin: from every state one call of the owner, assigning the
\* owner again, leads to the state with the same contract state and time and
\* no outcome recorded. So what holds of the calls in every reachable Quiet
\* state holds of them in every reachable state.
Quiet == result = Unit /\ events = <<>> /\ promise = <<>>

QuietTwin == update_owner_id(Contract, owner_id, owner_id) = Ok(Contract)

\* the call did not complete: it panicked, or it returned the promise to
\* fail_on_invalid_agent, which always panics
Fails(out) ==
    \/ out.result \notin {Unit, "true", "promise"}
    \/ \E i \in DOMAIN out.promise : out.promise[i].method = "fail_on_invalid_agent"

Dispatches(out) ==
    \E i \in DOMAIN out.promise : out.promise[i].method = "sign"

\* every request_signature call an identity can make in the current state
RequestOutcomes(self, a, now) ==
    {request_signature(self, a, now, path, payload, key_type) :
        path \in Paths, payload \in Payloads, key_type \in KeyTypes}

\* the conditions of the Authorization Gate, as the claim states them
GateConditions(a) ==
    /\ a \in DOMAIN agents
    /\ agents[a].measurements \in approved_measurements
    /\ agents[a].ppid \in approved_ppids
    /\ agents[a].valid_until_ms >= block_timestamp_ms
    /\ (~requires_tee => a \in whitelisted_agents_for_local)

\* what C1 says of the calls that can be made in the current state
C1_Calls ==
    /\ \A a \in Accounts :
          \A out \in RequestOutcomes(Contract, a, block_timestamp_ms) :
              Dispatches(out) => GateConditions(a)

C2_Revokes ==
    \A a \in DOMAIN agents :
        LET bad_measurements == agents[a].measurements \notin approved_measurements
            bad_ppid == agents[a].ppid \notin approved_ppids
        IN  (bad_measurements \/ bad_ppid) =>
            \A out \in RequestOutcomes(Contract, a, block_timestamp_ms) :
                /\ Fails(out)
                /\ ~Dispatches(out)
                /\ a \notin DOMAIN out.self.agents
                /\ Len(out.events) = 1
                /\ out.events[1].event = "agent_removed"
                /\ out.events[1].account_id = a
                /\ bad_measurements => "InvalidMeasurements" \in Range(out.events[1].reasons)
                /\ bad_ppid => "InvalidPpid" \in Range(out.events[1].reasons)
                /\ \A t \in block_timestamp_ms..MaxTime :
                      \A again \in RequestOutcomes(out.self, a, t) :
                          /\ again.result = "Agent not registered"
                          /\ again.events = <<>>
                          /\ again.promise = <<>>
                          /\ again.self = out.self

C2_StaysRevoked ==
    \A a \in Accounts \ DOMAIN agents :
        \A out \in RequestOutcomes(Contract, a, block_timestamp_ms) :
            /\ out.result = "Agent not registered"
            /\ out.events = <<>>

C2_OnlyRegistrationRestores ==
    \A a \in Accounts :
        (a \notin DOMAIN agents /\ a \in DOMAIN agents') =>
            /\ result' = "true"
            /\ Len(events') = 1
            /\ events'[1].event = "agent_registered"
            /\ events'[1].account_id = a

C2_RevocationSticky ==
    /\ [](QuietTwin /\ (Quiet => C2_Revokes /\ C2_StaysRevoked))
    /\ [][C2_OnlyRegistrationRestores]_vars

C2_Witness ==
    /\ Len(events) = 1
    /\ events[1].event = "agent_removed"
    /\ "InvalidMeasurements" \in Range(events[1].reasons)
    /\ events[1].account_id \notin DOMAIN agents
    /\ promise # <<>>
    /\ promise[1].method = "fail_on_invalid_agent"

\* C3: the reason list of the gate's removal event is exactly the list of
\* failing conditions, none skipped: ExpiredAttestation iff valid_until_ms <
\* now, InvalidMeasurements iff the measurements are not approved,
\* InvalidPpid iff the ppid is not approved, NotWhitelistedForLocal iff local
\* mode and the caller is not whitelisted; no event when none fails.
ExpectedReasons(a) ==
    {r \in {"ExpiredAttestation", "InvalidMeasurements", "InvalidPpid",
            "NotWhitelistedForLocal"} :
        \/ r = "ExpiredAttestation" /\ agents[a].valid_until_ms < block_timestamp_ms
        \/ r = "InvalidMeasurements" /\ agents[a].measurements \notin approved_measurements
        \/ r = "InvalidPpid" /\ agents[a].ppid \notin approved_ppids
        \/ r = "NotWhitelistedForLocal" /\ ~requires_tee
                                        /\ a \notin whitelisted_agents_for_local}

\* what C3 says of the calls that can be made in the current state
C3_Calls ==
    /\ \A a \in DOMAIN agents :
          \A out \in RequestOutcomes(Contract, a, block_timestamp_ms) :
              IF ExpectedReasons(a) = {}
              THEN out.events = <<>>
              ELSE /\ Len(out.events) = 1
                   /\ out.events[1].event = "agent_removed"
                   /\ out.events[1].account_id = a
                   /\ Range(out.events[1].reasons) = ExpectedReasons(a)
                   /\ Len(out.events[1].reasons) = Cardinality(ExpectedReasons(a))

C3_ReasonsExact ==
    /\ QuietTwin
    /\ Quiet => C3_Calls
    /\ requires_tee =>
          \A i \in DOMAIN events :
              events[i].event = "agent_removed" =>
                  "NotWhitelistedForLocal" \notin Range(events[i].reasons)

C3_Witness ==
    /\ Len(events) = 1
    /\ events[1].event = "agent_removed"
    /\ {"ExpiredAttestation", "InvalidMeasurements"} \subseteq Range(events[1].reasons)

\* what C4 says of the calls that can be made in the current state
C4_Calls ==
    /\ \A a \in Accounts \ DOMAIN agents :
          \A out \in RequestOutcomes(Contract, a, block_timestamp_ms) :
              /\ out.result = "Agent not registered"
              /\ out.events = <<>>
              /\ out.promise = <<>>
              /\ out.self = Contract

\* C4: request_signature by an identity without a record fails with 'Agent
\* not registered', emits no event, issues no delegated call and leaves the
\* whole contract state unchanged.
C4_NotRegistered ==
    /\ QuietTwin
    /\ Quiet => C4_Calls
    /\ result = "Agent not registered" => events = <<>> /\ promise = <<>>

C4_Witness ==
    /\ result = "Agent not registered"
    /\ events = <<>>
    /\ promise = <<>>
    /\ \E a \in Accounts \ DOMAIN agents :
          \A out \in RequestOutcomes(Contract, a, block_timestamp_ms) :
              out.result = result

\* every call of an owner-management method an identity can make
ConfigOutcomes(self, p) ==
    {update_attestation_expiration_time(self, p, e) : e \in Durations}
    \cup {update_owner_id(self, p, n) : n \in Accounts}
    \cup {update_mpc_contract_id(self, p, m) : m \in MpcAccounts}

ApproveOutcomes(self, p) ==
    {approve_measurements(self, p, m) : m \in Measurements}
    \cup {approve_ppids(self, p, ids) : ids \in PpidLists}

RemoveOutcomes(self, p) ==
    {remove_measurements(self, p, m) : m \in Measurements}
    \cup {remove_ppids(self, p, ids) : ids \in PpidLists}
    \cup {remove_agent(self, p, a) : a \in Accounts}

WhitelistAddOutcomes(self, p) ==
    {whitelist_agent_for_local(self, p, a) : a \in Accounts}

WhitelistRemoveOutcomes(self, p) ==
    {remove_agent_from_whitelist_for_local(self, p, a) : a \in Accounts}

OwnerCallOutcomes(self, p) ==
    ConfigOutcomes(self, p) \cup ApproveOutcomes(self, p) \cup RemoveOutcomes(self, p)
    \cup WhitelistAddOutcomes(self, p) \cup WhitelistRemoveOutcomes(self, p)

\* what C5 says of the calls that can be made in the current state
C5_Calls ==
    /\ \A a \in Accounts \ {owner_id} :
          \A out \in OwnerCallOutcomes(Contract, a) :
              /\ Fails(out)
              /\ out.self = Contract
              /\ out.events = <<>>
              /\ out.promise = <<>>

\* C5: every owner-management method called by an identity other than the
\* current owner fails and leaves the whole contract state unchanged.
C5_NonOwnerFailsClosed ==
    /\ QuietTwin
    /\ Quiet => C5_Calls
    /\ result = NotOwner => events = <<>> /\ promise = <<>>

C5_Witness ==
    /\ result = NotOwner
    /\ approved_measurements # {}
    /\ DOMAIN agents # {}

\* The owner-only methods of the current mode: the whitelist methods are
\* refused for every caller when requires_tee is set.
OwnerOnlyOutcomes(self, p) ==
    ConfigOutcomes(self, p) \cup ApproveOutcomes(self, p) \cup RemoveOutcomes(self, p)
    \cup (IF self.requires_tee THEN {}
          ELSE WhitelistAddOutcomes(self, p) \cup WhitelistRemoveOutcomes(self, p))

\* owner-only methods that have no other way to fail than the owner check
UnconditionalOutcomes(self, p) ==
    ConfigOutcomes(self, p) \cup ApproveOutcomes(self, p)
    \cup (IF self.requires_tee THEN {} ELSE WhitelistAddOutcomes(self, p))

Results(outs) == {out.result : out \in outs}

\* what each owner-management call by p does, apart from who the owner is
Effect(out) == [out EXCEPT !.self.owner_id = None]

OwnerCallEffects(self, p) ==
    [update_attestation_expiration_time |->
        [e \in Durations |-> Effect(update_attestation_expiration_time(self, p, e))],
     update_owner_id |->
        [n \in Accounts |-> update_owner_id(self, p, n)],
     update_mpc_contract_id |->
        [m \in MpcAccounts |-> Effect(update_mpc_contract_id(self, p, m))],
     approve_measurements |->
        [m \in Measurements |-> Effect(approve_measurements(self, p, m))],
     remove_measurements |->
        [m \in Measurements |-> Effect(remove_measurements(self, p, m))],
     approve_ppids |->
        [ids \in PpidLists |-> Effect(approve_ppids(self, p, ids))],
     remove_ppids |->
        [ids \in PpidLists |-> Effect(remove_ppids(self, p, ids))],
     remove_agent |->
        [a \in Accounts |-> Effect(remove_agent(self, p, a))],
     whitelist_agent_for_local |->
        [a \in Accounts |-> Effect(whitelist_agent_for_local(self, p, a))],
     remove_agent_from_whitelist_for_local |->
        [a \in Accounts |-> Effect(remove_agent_from_whitelist_for_local(self, p, a))]]

\* what C6 says of the calls that can be made in the current state
C6_Calls ==
    /\ Cardinality({a \in AccountIds : require_owner(Contract, a)}) = 1
    /\ \A a \in Accounts \ {owner_id} :
          Results(OwnerOnlyOutcomes(Contract, a)) = {NotOwner}
    /\ NotOwner \notin Results(OwnerOnlyOutcomes(Contract, owner_id))
    /\ \A new_owner_id \in Accounts \ {owner_id} :
          LET transfer == update_owner_id(Contract, owner_id, new_owner_id)
          IN  /\ transfer.result = Unit
              /\ transfer.self.owner_id = new_owner_id
              /\ Results(OwnerOnlyOutcomes(transfer.self, owner_id)) = {NotOwner}
              /\ NotOwner \notin Results(OwnerOnlyOutcomes(transfer.self, new_owner_id))
              /\ Results(UnconditionalOutcomes(transfer.self, new_owner_id)) = {Unit}
              /\ OwnerCallEffects(transfer.self, new_owner_id)
                    = OwnerCallEffects(Contract, owner_id)

RegisterCalls == Deposits \X Attestations

Register(a, call) ==
    register_agent(Contract, a, block_timestamp_ms, call[1], call[2])

storage_cost == storage_byte_cost * STORAGE_BYTES_TO_REGISTER

\* the rejections the claim lists
MustReject(a, attestation) ==
    IF requires_tee
    THEN \/ ~attestation.quote_ok
         \/ attestation.measurements \notin approved_measurements
         \/ attestation.ppid \notin approved_ppids
    ELSE \/ a \notin whitelisted_agents_for_local
         \/ DefaultMeasurements \notin approved_measurements
         \/ DefaultPpid \notin approved_ppids

\* what C7 says of the calls that can be made in the current state
C7_Calls ==
    \A a \in Accounts : \A call \in RegisterCalls :
        LET out == Register(a, call)
        IN  /\ MustReject(a, call[2]) => out.result # "true"
            /\ out.result # "true" =>
                  /\ out.self.agents = agents
                  /\ out.self = Contract
                  /\ out.events = <<>>
                  /\ out.promise = <<>>

\* C7: a rejected register_agent (caller not whitelisted in local mode,
\* verification error, measurements or ppid not approved) creates no record
\* and modifies none: the agents map, and the whole contract, stay as they
\* were.
C7_RejectedRegisterWritesNothing ==
    /\ QuietTwin
    /\ Quiet => C7_Calls

RegistrationErrors ==
    {"Agent needs to be whitelisted for local mode",
     "Default measurements must be approved for local mode",
     "Default PPID must be approved for local mode",
     "Account ID must be implicit account",
     "Attestation verification failed: BadSignature",
     "Attestation verification failed: IdentityMismatch",
     "Attestation verification failed: MeasurementNotApproved",
     "Attestation verification failed: PlatformNotApproved"}

C7_Witness ==
    /\ result \in RegistrationErrors
    /\ events = <<>>
    /\ \E a \in DOMAIN agents : \E call \in RegisterCalls :
          /\ Register(a, call).result = result
          /\ agents[a].valid_until_ms
                # block_timestamp_ms + attestation_expiration_time_ms

SentinelsApproved ==
    /\ DefaultMeasurements \in approved_measurements
    /\ DefaultPpid \in approved_ppids

\* C8 as stated: in local mode register_agent succeeds if and only if both
\* all-zero sentinels are approved and the caller is whitelisted.
C8_AsStated ==
    ~requires_tee =>
        \A a \in Accounts : \A call \in RegisterCalls :
            Register(a, call).result = "true"
                <=> (SentinelsApproved /\ a \in whitelisted_agents_for_local)

\* what C8 says of the calls that can be made in the current state
C8_Calls ==
    ~requires_tee =>
        \A a \in Accounts : \A call \in RegisterCalls :
            LET out == Register(a, call)
            IN  /\ out.result = "true"
                      <=> /\ SentinelsApproved
                          /\ a \in whitelisted_agents_for_local
                          /\ call[1] >= storage_cost
                /\ out.result = "true" =>
                      /\ out.self.agents[a].measurements = DefaultMeasurements
                      /\ out.self.agents[a].ppid = DefaultPpid

\* C8: in local mode register_agent succeeds if and only if both all-zero
\* sentinels are approved, the caller is whitelisted and the attached deposit
\* covers the storage cost; with only non-default measurements or ppids
\* approved it fails.
C8_LocalSentinelGate ==
    /\ QuietTwin
    /\ Quiet => C8_Calls

C8_Witness ==
    /\ ~requires_tee
    /\ result = "true"
    /\ Len(events) = 1
    /\ events[1].event = "agent_registered"
    /\ events[1].account_id \in whitelisted_agents_for_local
    /\ SentinelsApproved

\* the account id bytes zero-padded to 64 bytes
PaddedAccountBytes ==
    [a \in ImplicitAccounts |->
        hex_decode(account_id_str(a)) \o [i \in 1..32 |-> 0]]

\* what C9 says of the calls that can be made in the current state
C9_Calls ==
    requires_tee =>
        \A a \in Accounts : \A call \in RegisterCalls :
            LET out == Register(a, call)
                quote == call[2]
            IN  /\ out.result = "true" =>
                      /\ a \in ImplicitAccounts
                      /\ Len(quote.report_data) = 64
                      /\ quote.report_data = PaddedAccountBytes[a]
                /\ \A x \in ImplicitAccounts \ {a} :
                      quote.report_data = PaddedAccountBytes[x] =>
                          /\ out.result # "true"
                          /\ out.self.agents = agents

\* C9: in attested mode register_agent succeeds only if the quote's report
\* data is the caller's account id bytes zero-padded to 64 bytes; a quote
\* made for another identity neither creates nor refreshes a record.
C9_QuoteBoundToCaller ==
    /\ QuietTwin
    /\ Quiet => C9_Calls

C9_Witness ==
    /\ requires_tee
    /\ result = "true"
    /\ Len(events) = 1
    /\ events[1].event = "agent_registered"
    /\ events[1].account_id = ImplicitA
    /\ ImplicitA \in DOMAIN agents
    /\ \E call \in RegisterCalls :
          /\ call[2].report_data = PaddedAccountBytes[ImplicitB]
          /\ Register(ImplicitA, call).result
                = "Attestation verification failed: IdentityMismatch"

\* what C10 says of the calls that can be made in the current state
C10_Calls ==
    /\ \A a \in Accounts : \A call \in RegisterCalls :
          LET out == Register(a, call)
          IN  out.result = "true" =>
                  /\ a \in DOMAIN out.self.agents
                  /\ out.self.agents[a].measurements \in approved_measurements
                  /\ out.self.agents[a].ppid \in approved_ppids
                  /\ \A b \in DOMAIN agents \ {a} :
                        b \in DOMAIN out.self.agents /\ out.self.agents[b] = agents[b]

\* C10: a record is written only by a successful register_agent of that
\* identity, and the measurements and ppid it stores are in the approval
\* sets at the moment of that call.
C10_VerifiedWhenWritten ==
    /\ QuietTwin
    /\ Quiet => C10_Calls
    /\ result = "true" =>
          /\ Len(events) = 1
          /\ events[1].event = "agent_registered"
          /\ events[1].account_id \in DOMAIN agents
          /\ agents[events[1].account_id].measurements = events[1].measurements
          /\ agents[events[1].account_id].ppid = events[1].ppid
          /\ events[1].measurements \in approved_measurements
          /\ events[1].ppid \in approved_ppids

C10_WrittenByRegistration ==
    \A a \in Accounts :
        (a \in DOMAIN agents' /\ (a \notin DOMAIN agents \/ agents'[a] # agents[a])) =>
            /\ result' = "true"
            /\ events'[1].account_id = a
            /\ agents'[a].measurements \in approved_measurements
            /\ agents'[a].ppid \in approved_ppids
            /\ UNCHANGED <<approved_measurements, approved_ppids>>

C10_RecordsVerified ==
    /\ []C10_VerifiedWhenWritten
    /\ [][C10_WrittenByRegistration]_vars

C10_Witness ==
    /\ result = "true"
    /\ Len(events) = 1
    /\ events[1].event = "agent_registered"
    /\ events[1].measurements \in approved_measurements
    /\ approved_measurements # Measurements
    /\ approved_ppids # Ppids

\* every call an identity can make in the current state, register_agent apart
OtherCallOutcomes ==
    UNION {OwnerCallOutcomes(Contract, p)
           \cup RequestOutcomes(Contract, p, block_timestamp_ms) : p \in Accounts}

\* the records the call leaves stored keep their valid_until_ms
KeepsValidUntil(out) ==
    \A a \in DOMAIN agents \cap DOMAIN out.self.agents :
        out.self.agents[a].valid_until_ms = agents[a].valid_until_ms

\* what C11 says of the calls that can be made in the current state
C11_Calls ==
    /\ \A a \in Accounts : \A call \in RegisterCalls :
          LET out == Register(a, call)
          IN  /\ out.result = "true" =>
                    out.self.agents[a].valid_until_ms
                        = block_timestamp_ms + attestation_expiration_time_ms
              /\ out.result # "true" => KeepsValidUntil(out)
              /\ \A b \in DOMAIN agents \ {a} :
                    b \in DOMAIN out.self.agents /\ out.self.agents[b] = agents[b]
    /\ \A out \in OtherCallOutcomes : KeepsValidUntil(out)
    /\ \A p \in Accounts : \A e \in Durations :
          LET out == update_attestation_expiration_time(Contract, p, e)
          IN  /\ out.self.agents = agents
              /\ out.result = Unit => out.self.attestation_expiration_time_ms = e
    /\ \A p \in Accounts :
          \A out \in RequestOutcomes(Contract, p, block_timestamp_ms) :
              Dispatches(out) => out.self.agents = agents

\* C11: a successful register_agent stores block time plus the configured
\* duration as the caller's valid_until_ms; no other call changes the
\* valid_until_ms of a stored record: update_attestation_expiration_time
\* leaves the agents map as it is, and so does a request_signature that
\* dispatches.
C11_ValidUntilFixedAtRegistration ==
    /\ QuietTwin
    /\ Quiet => C11_Calls
    /\ result = "true" =>
          /\ events[1].current_time_ms = block_timestamp_ms
          /\ events[1].valid_until_ms
                = block_timestamp_ms + attestation_expiration_time_ms
          /\ agents[events[1].account_id].valid_until_ms = events[1].valid_until_ms

C11_Witness ==
    /\ result = Unit
    /\ block_timestamp_ms = 0
    /\ attestation_expiration_time_ms = 1
    /\ \E a \in DOMAIN agents :
          /\ agents[a].valid_until_ms = 0
          /\ Dispatches(request_signature(Contract, a, 0, "path", "test_payload", "Ecdsa"))

\* ContractInfo
get_contract_info(self) ==
    [requires_tee |-> self.requires_tee,
     attestation_expiration_time_ms |-> self.attestation_expiration_time_ms,
     owner_id |-> self.owner_id,
     mpc_contract_id |-> self.mpc_contract_id]

\* the order in which the views below list the accounts
AccountOrder == <<OwnerAccount, ImplicitA>>

\* the AgentView built for a stored record
AgentView(self, account_id, agent, now) ==
    [account_id |-> account_id,
     measurements |-> agent.measurements,
     measurements_are_approved |->
         Contains(self.approved_measurements, agent.measurements),
     ppid |-> agent.ppid,
     ppid_is_approved |-> Contains(self.approved_ppids, agent.ppid),
     valid_until_ms |-> agent.valid_until_ms,
     timestamp_is_valid |-> agent.valid_until_ms > now,
     is_valid |-> /\ Contains(self.approved_measurements, agent.measurements)
                  /\ Contains(self.approved_ppids, agent.ppid)
                  /\ agent.valid_until_ms > now]

\* get_agent that answers None for a record the gate would remove
get_agent_HidesInvalid(self, account_id, now) ==
    IF account_id \notin DOMAIN self.agents THEN None
    ELSE IF removal_reasons(self, account_id, now) # <<>> THEN None
    ELSE Some(AgentView(self, account_id, self.agents[account_id], now))

\* get_agent whose is_valid leaves the expiry out
get_agent_IgnoresExpiry(self, account_id, now) ==
    IF account_id \notin DOMAIN self.agents THEN None
    ELSE LET view == AgentView(self, account_id, self.agents[account_id], now)
         IN  Some([view EXCEPT !.is_valid = /\ view.measurements_are_approved
                                            /\ view.ppid_is_approved])

get_agent(self, account_id, now) ==
    IF account_id \notin DOMAIN self.agents THEN None
    ELSE Some(AgentView(self, account_id, self.agents[account_id], now))

\* get_agents(None, None): one view per stored record
get_agents(self, now) ==
    LET IsStored(a) == a \in DOMAIN self.agents
        stored == SelectSeq(AccountOrder, IsStored)
    IN  [i \in 1..Len(stored) |->
            AgentView(self, stored[i], self.agents[stored[i]], now)]

\* what C12 says of the calls that can be made in the current state
C12_Calls ==
    \A a \in DOMAIN agents : \A call \in RegisterCalls :
        LET out == Register(a, call)
            again == register_agent(out.self, a, block_timestamp_ms, call[1], call[2])
        IN  out.result = "true" =>
              /\ DOMAIN out.self.agents = DOMAIN agents
              /\ out.self.agents[a].valid_until_ms
                    = block_timestamp_ms + attestation_expiration_time_ms
              /\ Len(get_agents(out.self, block_timestamp_ms))
                    = Len(get_agents(Contract, block_timestamp_ms))
              /\ Cardinality({i \in 1..Len(get_agents(out.self, block_timestamp_ms)) :
                                get_agents(out.self, block_timestamp_ms)[i].account_id = a}) = 1
              /\ again.result = "true"
              /\ again.self = out.self

\* C12: a successful register_agent by an already registered identity
\* overwrites: the map holds the same identities, one record for the caller
\* with valid_until_ms = time of this registration + duration, get_agents is
\* as long as before, and repeating the call changes nothing more.
C12_ReRegistrationOverwrites ==
    /\ QuietTwin
    /\ Quiet => C12_Calls

C12_Witness ==
    /\ result = "true"
    /\ block_timestamp_ms = 1
    /\ attestation_expiration_time_ms = 1
    /\ \E a \in DOMAIN agents : \E call \in RegisterCalls :
          /\ events[1].account_id = a
          /\ agents[a].valid_until_ms = 2
          /\ Register(a, call).result = "true"
          /\ Register(a, call).self = Contract
          /\ Len(get_agents(Contract, 1)) = Cardinality(DOMAIN agents)

\* the identities whose record a call deleted
Deleted(out) == DOMAIN agents \ DOMAIN out.self.agents

\* what C13 says of the calls that can be made in the current state
C13_Calls ==
    /\ \A p \in Accounts :
          /\ \A m \in Measurements :
                remove_measurements(Contract, p, m).self.agents = agents
          /\ \A ids \in PpidLists :
                remove_ppids(Contract, p, ids).self.agents = agents
          /\ \A out \in ConfigOutcomes(Contract, p) \cup ApproveOutcomes(Contract, p)
                        \cup WhitelistAddOutcomes(Contract, p)
                        \cup WhitelistRemoveOutcomes(Contract, p) :
                Deleted(out) = {}
          /\ \A call \in RegisterCalls : Deleted(Register(p, call)) = {}
          /\ \A out \in RequestOutcomes(Contract, p, block_timestamp_ms) :
                Deleted(out) \subseteq {p}
          /\ \A a \in Accounts :
                LET out == remove_agent(Contract, p, a)
                IN  /\ Deleted(out) \subseteq {a}
                    /\ Deleted(out) # {} => p = owner_id
    /\ \A a \in DOMAIN agents :
          /\ LET after == remove_measurements(Contract, owner_id, agents[a].measurements)
             IN  after.result = Unit =>
                   /\ after.self.agents[a] = agents[a]
                   /\ ~get_agent(after.self, a, block_timestamp_ms)[1].measurements_are_approved
                   /\ \A out \in RequestOutcomes(after.self, a, block_timestamp_ms) :
                         /\ a \notin DOMAIN out.self.agents
                         /\ "InvalidMeasurements" \in Range(out.events[1].reasons)
          /\ LET after == remove_ppids(Contract, owner_id, <<agents[a].ppid>>)
             IN  after.result = Unit =>
                   /\ after.self.agents[a] = agents[a]
                   /\ ~get_agent(after.self, a, block_timestamp_ms)[1].ppid_is_approved
                   /\ \A out \in RequestOutcomes(after.self, a, block_timestamp_ms) :
                         /\ a \notin DOMAIN out.self.agents
                         /\ "InvalidPpid" \in Range(out.events[1].reasons)

\* C13: remove_measurements and remove_ppids leave the agents map unchanged,
\* so a record registered with the removed value stays stored with the same
\* fields; a record is deleted only by a request_signature of its own agent
\* or by remove_agent of the owner, and the next request_signature of an
\* agent whose value was removed deletes its record.
C13_RemovalDoesNotCascade ==
    /\ QuietTwin
    /\ Quiet => C13_Calls

C13_Witness ==
    /\ result = Unit
    /\ events = <<>>
    /\ \E a \in DOMAIN agents :
          /\ agents[a].measurements \notin approved_measurements
          /\ agents[a].ppid \notin approved_ppids
          /\ approve_measurements(Contract, owner_id, agents[a].measurements).self
                # Contract

\* the order in which the views list an approval set
MeasurementsOrder == <<DefaultMeasurements, NonDefaultMeasurements>>

PpidOrder == <<DefaultPpid, NonDefaultPpid>>

\* .iter() of a set
Iter(order, set) ==
    LET IsMember(x) == Contains(set, x)
    IN  SelectSeq(order, IsMember)

\* .skip(from).take(limit) of a sequence
SkipTake(s, from, limit) ==
    LET first == IF from < Len(s) THEN from + 1 ELSE Len(s) + 1
        last == IF from + limit < Len(s) THEN from + limit ELSE Len(s)
    IN  SubSeq(s, first, last)

\* get_approved_measurements that takes the page before it skips the offset
get_approved_measurements_TakesThenSkips(self, from_index, limit) ==
    LET listed == Iter(MeasurementsOrder, self.approved_measurements)
        from == IF from_index = None THEN 0 ELSE from_index[1]
        lim == IF limit = None THEN Len(listed) ELSE limit[1]
    IN  SkipTake(SkipTake(listed, 0, lim), from, Len(listed))

get_approved_measurements(self, from_index, limit) ==
    LET listed == Iter(MeasurementsOrder, self.approved_measurements)
        from == IF from_index = None THEN 0 ELSE from_index[1]
        lim == IF limit = None THEN Len(listed) ELSE limit[1]
    IN  SkipTake(listed, from, lim)

get_approved_ppids(self) == Iter(PpidOrder, self.approved_ppids)

NoDuplicates(s) == \A i, j \in 1..Len(s) : s[i] = s[j] => i = j

\* what C14 says of the calls that can be made in the current state
C14_Calls ==
    /\ \A b \in Measurements :
          LET out == approve_measurements(Contract, owner_id, b)
              listed == get_approved_measurements(out.self, None, None)
          IN  /\ out.result = Unit
              /\ out.self.approved_measurements = approved_measurements \cup {b}
              /\ NoDuplicates(listed)
              /\ Range(listed) = out.self.approved_measurements
              /\ b \in approved_measurements =>
                    /\ out.self = Contract
                    /\ Len(listed) = Len(get_approved_measurements(Contract, None, None))
              /\ approve_measurements(out.self, owner_id, b).self = out.self
    /\ \A ids \in PpidLists :
          LET out == approve_ppids(Contract, owner_id, ids)
              listed == get_approved_ppids(out.self)
          IN  /\ out.result = Unit
              /\ out.self.approved_ppids = approved_ppids \cup Range(ids)
              /\ NoDuplicates(listed)
              /\ Range(listed) = out.self.approved_ppids
              /\ Range(ids) \subseteq approved_ppids =>
                    /\ out.self = Contract
                    /\ Len(listed) = Len(get_approved_ppids(Contract))
              /\ approve_ppids(out.self, owner_id, ids).self = out.self

\* C14: approve_measurements of a bundle that is already approved succeeds and
\* leaves the approval set, and the length of get_approved_measurements,
\* unchanged; the listing never shows a bundle twice. approve_ppids adds
\* exactly the ids of its list that are not yet approved, whatever the list
\* repeats.
C14_ApprovalIdempotent ==
    /\ QuietTwin
    /\ Quiet => C14_Calls

C14_Witness ==
    /\ result = Unit
    /\ events = <<>>
    /\ Len(get_approved_measurements(Contract, None, None)) = 2
    /\ Len(get_approved_ppids(Contract)) = 2
    /\ \A b \in Measurements :
          approve_measurements(Contract, owner_id, b).self = Contract

\* C15 as stated: for every bundle and every state, remove_measurements after
\* approve_measurements gives back the approval set from before the approve.
C15_AsStated ==
    \A b \in Measurements :
        LET approved == approve_measurements(Contract, owner_id, b)
            removed == remove_measurements(approved.self, owner_id, b)
        IN  removed.self.approved_measurements = approved_measurements

\* what C15 says of the calls that can be made in the current state
C15_Calls ==
    \A b \in Measurements :
        LET approved == approve_measurements(Contract, owner_id, b)
            removed == remove_measurements(approved.self, owner_id, b)
            alone == remove_measurements(Contract, owner_id, b)
        IN  /\ removed.result = Unit
            /\ removed.self.approved_measurements = approved_measurements \ {b}
            /\ b \notin approved_measurements =>
                  /\ removed.self = Contract
                  /\ alone.result = "Measurements not in approved list"
                  /\ alone.self = Contract
                  /\ alone.events = <<>>
            /\ b \in approved_measurements =>
                  /\ alone.result = Unit
                  /\ alone.self.approved_measurements = approved_measurements \ {b}

\* C15: for every bundle that is not in the approval set, remove_measurements
\* after approve_measurements gives back the approval set (and the whole
\* state) from before the approve; remove_measurements of a bundle that is not
\* in the set fails with 'Measurements not in approved list' and changes
\* nothing.
C15_RemoveUndoesApprove ==
    /\ QuietTwin
    /\ Quiet => C15_Calls

C15_Witness ==
    /\ result = "Measurements not in approved list"
    /\ approved_measurements # {}
    /\ \E b \in Measurements \ approved_measurements :
          remove_measurements(approve_measurements(Contract, owner_id, b).self,
                              owner_id, b).self = Contract

\* an id of the list is absent when its removal is attempted
AbsentWhenAttempted(set, ids) ==
    \E i \in 1..Len(ids) : ids[i] \notin set \ {ids[j] : j \in 1..(i - 1)}

\* what C16 says of the calls that can be made in the current state
C16_Calls ==
    \A ids \in PpidLists :
        LET out == remove_ppids(Contract, owner_id, ids)
        IN  IF AbsentWhenAttempted(approved_ppids, ids)
            THEN /\ out.result = "PPID not in approved list"
                 /\ out.self.approved_ppids = approved_ppids
                 /\ out.self = Contract
                 /\ out.events = <<>>
            ELSE /\ out.result = Unit
                 /\ out.self.approved_ppids = approved_ppids \ Range(ids)

\* C16: remove_ppids by the owner fails with 'PPID not in approved list' and
\* leaves approved_ppids, and the whole state, as before the call if and only
\* if an id of the list is absent when its removal is attempted, also when
\* ids earlier in the list were present; otherwise it removes the listed ids.
C16_RemovePpidsAtomic ==
    /\ QuietTwin
    /\ Quiet => C16_Calls

C16_Witness ==
    /\ result = "PPID not in approved list"
    /\ \E ids \in PpidLists :
          /\ Len(ids) = 2
          /\ ids[1] \in approved_ppids
          /\ ids[2] \notin approved_ppids
          /\ remove_ppids(Contract, owner_id, ids).result = result

\* what C17 says of the calls that can be made in the current state
C17_Calls ==
    /\ \A a \in Accounts :
          LET out == remove_agent(Contract, owner_id, a)
          IN  IF a \notin DOMAIN agents
              THEN /\ out.result = "Agent not registered"
                   /\ out.events = <<>>
                   /\ out.promise = <<>>
                   /\ out.self = Contract
              ELSE /\ out.result = Unit
                   /\ DOMAIN out.self.agents = DOMAIN agents \ {a}
                   /\ \A b \in DOMAIN agents \ {a} : out.self.agents[b] = agents[b]
                   /\ [out.self EXCEPT !.agents = agents] = Contract
                   /\ Len(out.events) = 1
                   /\ out.events[1].event = "agent_removed"
                   /\ out.events[1].account_id = a
                   /\ out.events[1].reasons = <<"ManualRemoval">>
                   /\ out.promise = <<>>

\* C17: remove_agent by the owner fails with 'Agent not registered', emits
\* nothing and changes nothing when the identity has no record; otherwise it
\* deletes that record only, leaves the other records, the approval sets,
\* the whitelist and the configuration as they are, and emits one removal
\* event with the reason list [ManualRemoval].
C17_RemoveAgentExact ==
    /\ QuietTwin
    /\ Quiet => C17_Calls
    /\ (result = Unit /\ events # <<>>) =>
          /\ Len(events) = 1
          /\ events[1].reasons = <<"ManualRemoval">>
          /\ events[1].account_id \notin DOMAIN agents

C17_Witness ==
    /\ result = Unit
    /\ Len(events) = 1
    /\ events[1].reasons = <<"ManualRemoval">>
    /\ events[1].account_id \notin DOMAIN agents
    /\ DOMAIN agents # {}
    /\ remove_agent(Contract, owner_id, events[1].account_id).result
          = "Agent not registered"

InvalidKeyTypes == KeyTypes \ {"Ecdsa", "Eddsa"}

C18_Calls ==
    \A a \in Accounts : \A path \in Paths : \A payload \in Payloads :
        \A key_type \in InvalidKeyTypes :
            LET out == request_signature(Contract, a, block_timestamp_ms,
                                         path, payload, key_type)
            IN  /\ ~Dispatches(out)
                /\ Fails(out)
                /\ GateConditions(a) =>
                      /\ out.result = "Invalid key type"
                      /\ out.self = Contract
                      /\ out.events = <<>>
                      /\ out.promise = <<>>
                /\ ~GateConditions(a) =>
                      /\ out.result # "Invalid key type"
                      /\ out = request_signature(Contract, a, block_timestamp_ms,
                                                 path, payload, "Ecdsa")

DomainOf(key_type) == IF key_type = "Ecdsa" THEN 0 ELSE 1

\* what C19 says of the calls that can be made in the current state
C19_Calls ==
    /\ \A a \in Accounts : \A path \in Paths : \A payload \in Payloads :
          \A key_type \in {"Ecdsa", "Eddsa"} :
              LET out == request_signature(Contract, a, block_timestamp_ms,
                                           path, payload, key_type)
              IN  GateConditions(a) =>
                    /\ out.result = "promise"
                    /\ Len(out.promise) = 1
                    /\ out.promise[1].method = "sign"
                    /\ out.promise[1].receiver = mpc_contract_id
                    /\ out.promise[1].agent = a
                    /\ out.promise[1].path = path
                    /\ out.promise[1].payload = payload
                    /\ out.promise[1].domain_id = DomainOf(key_type)
                    /\ out.events = <<>>
                    /\ out.self = Contract

\* C19: a request_signature that passes the gate with key type Ecdsa or Eddsa
\* issues exactly one delegated call, to the configured mpc_contract_id, with
\* the caller's identity, the given path and payload, and domain 0 for Ecdsa
\* and 1 for Eddsa; it changes no state and emits no event.
C19_DispatchForwards ==
    /\ QuietTwin
    /\ Quiet => C19_Calls
    /\ (promise # <<>> /\ promise[1].method = "sign") =>
          /\ Len(promise) = 1
          /\ promise[1].receiver = mpc_contract_id
          /\ promise[1].agent \in DOMAIN agents
          /\ promise[1].path \in Paths
          /\ promise[1].payload \in Payloads
          /\ promise[1].domain_id \in {0, 1}

C19_Witness ==
    /\ result = "promise"
    /\ Len(promise) = 1
    /\ promise[1].method = "sign"
    /\ promise[1].domain_id = 1
    /\ promise[1].receiver = "v1.signer"
    /\ promise[1].agent = ImplicitA

\* what C20 says of the calls that can be made in the current state
C20_Calls ==
    /\ \A a \in Accounts : \A path \in Paths : \A payload \in Payloads :
          \A key_type \in {"Ecdsa", "Eddsa"} :
              LET out == request_signature(Contract, a, block_timestamp_ms,
                                           path, payload, key_type)
                  failed == signer_failed(out.self, out.promise[1])
                  again == request_signature(failed.self, a, block_timestamp_ms,
                                             path, payload, key_type)
              IN  GateConditions(a) =>
                    /\ Dispatches(out)
                    /\ \A i \in DOMAIN out.promise :
                          out.promise[i].method # "fail_on_invalid_agent"
                    /\ failed.result = ExternalCallError
                    /\ failed.result \notin {"Agent not registered", "Invalid key type"}
                    /\ out.events = <<>>
                    /\ failed.events = <<>>
                    /\ failed.self.agents = agents
                    /\ failed.self.approved_measurements = approved_measurements
                    /\ failed.self.approved_ppids = approved_ppids
                    /\ failed.self.whitelisted_agents_for_local
                          = whitelisted_agents_for_local
                    /\ failed.self = Contract
                    /\ Dispatches(again)

\* C20: when the delegated call of a valid agent's request_signature fails at
\* the signer, the error is the external call's, not 'Agent not registered'
\* nor the gate's denial; the agent's record, the approval sets, the
\* whitelist and the rest of the state are as before the request, no removal
\* event was emitted, and the agent still passes the gate.
C20_SignerFailureDoesNotRevoke ==
    /\ QuietTwin
    /\ Quiet => C20_Calls
    /\ result = ExternalCallError =>
          /\ events = <<>>
          /\ promise = <<>>
          /\ \E a \in DOMAIN agents : GateConditions(a)

C20_Witness ==
    /\ result = ExternalCallError
    /\ events = <<>>
    /\ \E a \in DOMAIN agents :
          /\ GateConditions(a)
          /\ Dispatches(request_signature(Contract, a, block_timestamp_ms,
                                          "path", "test_payload", "Eddsa"))

\* the gate lets the identity through: it has a record and no reason applies
GatePasses(self, a, now) ==
    /\ a \in DOMAIN self.agents
    /\ removal_reasons(self, a, now) = <<>>

\* what C22 says of the calls that can be made in the current state
C22_Calls ==
    \A a \in Accounts : \A path \in Paths : \A payload \in Payloads :
        \A key_type \in KeyTypes :
            LET out == request_signature(Contract, a, block_timestamp_ms,
                                         path, payload, key_type)
            IN  (a \in DOMAIN agents /\ ExpectedReasons(a) = {}) =>
                  /\ GatePasses(Contract, a, block_timestamp_ms)
                  /\ out.self = Contract
                  /\ out.self.agents[a].valid_until_ms = agents[a].valid_until_ms
                  /\ out.events = <<>>
                  /\ \A i \in DOMAIN out.promise :
                        out.promise[i].method # "fail_on_invalid_agent"
                  /\ \A t \in block_timestamp_ms..MaxTime :
                        t <= agents[a].valid_until_ms =>
                            LET again == request_signature(out.self, a, t, path,
                                                           payload, key_type)
                            IN  /\ GatePasses(out.self, a, t)
                                /\ again.result = out.result
                                /\ again.promise = out.promise
                                /\ again.self = Contract
                                /\ again.events = <<>>

\* C22: a request_signature whose gate check succeeds changes nothing: the
\* caller's record with its valid_until_ms, the other records, the approval
\* sets, the whitelist and the owner are as before and no removal event is
\* emitted; the same call by the same agent succeeds again at every time up
\* to valid_until_ms while no approval is removed.
C22_GatePassIsPureRead ==
    /\ QuietTwin
    /\ Quiet => C22_Calls
    /\ (promise # <<>> /\ promise[1].method = "sign") =>
          /\ events = <<>>
          /\ GatePasses(Contract, promise[1].agent, block_timestamp_ms)

C22_Witness ==
    /\ result = "promise"
    /\ promise[1].method = "sign"
    /\ block_timestamp_ms = 1
    /\ agents[promise[1].agent].valid_until_ms = 1
    /\ attestation_expiration_time_ms = 1
    /\ Cardinality(DOMAIN agents) = 2

\* what C23 says of the views of the current state
C23_Calls ==
    LET listed == get_agents(Contract, block_timestamp_ms)
    IN  /\ \A a \in Accounts \ DOMAIN agents :
              get_agent(Contract, a, block_timestamp_ms) = None
        /\ \A a \in DOMAIN agents :
              LET found == get_agent(Contract, a, block_timestamp_ms)
                  view == found[1]
              IN  /\ Len(found) = 1
                  /\ view.account_id = a
                  /\ view.measurements = agents[a].measurements
                  /\ view.ppid = agents[a].ppid
                  /\ view.valid_until_ms = agents[a].valid_until_ms
                  /\ view.measurements_are_approved
                        <=> agents[a].measurements \in approved_measurements
                  /\ view.ppid_is_approved <=> agents[a].ppid \in approved_ppids
                  /\ view.is_valid <=> /\ view.measurements_are_approved
                                       /\ view.ppid_is_approved
                                       /\ view.timestamp_is_valid
                  /\ \E i \in 1..Len(listed) : listed[i] = view
        /\ Len(listed) = Cardinality(DOMAIN agents)
        /\ \A i \in 1..Len(listed) :
              /\ listed[i].account_id \in DOMAIN agents
              /\ Some(listed[i]) = get_agent(Contract, listed[i].account_id,
                                           block_timestamp_ms)

\* C23: get_agent and get_agents read the state only: a record is reported,
\* not deleted, also when its agent is invalid or expired; for each record
\* measurements_are_approved holds iff the stored measurements are in
\* approved_measurements, ppid_is_approved iff the stored ppid is in
\* approved_ppids, and is_valid is the conjunction of measurements_are_approved,
\* ppid_is_approved and timestamp_is_valid.
C23_ViewsReadOnly ==
    /\ QuietTwin
    /\ Quiet => C23_Calls

C23_Witness ==
    /\ Cardinality(DOMAIN agents) = 2
    /\ \E a \in DOMAIN agents :
          LET view == get_agent(Contract, a, block_timestamp_ms)[1]
          IN  /\ ~view.measurements_are_approved
              /\ view.ppid_is_approved
              /\ ~view.timestamp_is_valid
              /\ ~view.is_valid
    /\ \E b \in DOMAIN agents :
          LET view == get_agent(Contract, b, block_timestamp_ms)[1]
          IN  view.timestamp_is_valid /\ ~view.is_valid

\* what C24 says of the calls that can be made in the current state
C24_Calls ==
    /\ \A p \in Accounts : \A out \in ApproveOutcomes(Contract, p) :
          out.self.agents = agents
    /\ \A a \in DOMAIN agents : \A path \in Paths : \A payload \in Payloads :
          \A key_type \in {"Ecdsa", "Eddsa"} :
              LET m == agents[a].measurements
                  removed == remove_measurements(Contract, owner_id, m)
                  denied == request_signature(removed.self, a, block_timestamp_ms,
                                              path, payload, key_type)
                  revoked == approve_measurements(denied.self, owner_id, m)
                  survivor == approve_measurements(removed.self, owner_id, m)
              IN  m \in approved_measurements =>
                    /\ removed.result = Unit
                    /\ Fails(denied)
                    /\ revoked.result = Unit
                    /\ m \in revoked.self.approved_measurements
                    /\ a \notin DOMAIN revoked.self.agents
                    /\ get_agent(revoked.self, a, block_timestamp_ms) = None
                    /\ \A t \in block_timestamp_ms..MaxTime :
                          LET again == request_signature(revoked.self, a, t, path,
                                                         payload, key_type)
                          IN  /\ again.result = "Agent not registered"
                              /\ again.self = revoked.self
                    /\ \A call \in RegisterCalls :
                          LET registered == register_agent(revoked.self, a,
                                                block_timestamp_ms, call[1], call[2])
                          IN  registered.result = "true" =>
                                /\ a \in DOMAIN registered.self.agents
                                /\ GatePasses(registered.self, a, block_timestamp_ms)
                    /\ survivor.result = Unit
                    /\ survivor.self = Contract
                    /\ survivor.self.agents[a] = agents[a]
                    /\ get_agent(survivor.self, a, block_timestamp_ms)[1]
                          .measurements_are_approved
                    /\ GateConditions(a) =>
                          Dispatches(request_signature(survivor.self, a,
                              block_timestamp_ms, path, payload, key_type))

\* C24: approve_measurements and approve_ppids never create a record. After
\* a bundle is removed and approved again, an agent the gate revoked in
\* between has no record (get_agent is None, request_signature fails with
\* 'Agent not registered') until it registers again; an agent that made no
\* request in between has its record as before, reports
\* measurements_are_approved = true and passes the gate.
C24_ReApprovalRestoresSurvivors ==
    /\ QuietTwin
    /\ Quiet => C24_Calls

C24_Witness ==
    /\ result = Unit
    /\ events = <<>>
    /\ \E a \in DOMAIN agents : \E b \in Accounts \ DOMAIN agents :
          LET m == agents[a].measurements
              survivor == approve_measurements(Contract, owner_id, m)
          IN  /\ m \notin approved_measurements
              /\ ~GatePasses(Contract, a, block_timestamp_ms)
              /\ GatePasses(survivor.self, a, block_timestamp_ms)
              /\ DOMAIN survivor.self.agents = DOMAIN agents
              /\ b \in whitelisted_agents_for_local

\* offsets and limits a caller passes to the paginated views
MaxPage == 3

PageArgs == 0..MaxPage

\* every order in which the elements of a set can be listed
Orderings(set) ==
    {s \in [1..Cardinality(set) -> set] : \A x \in set : \E i \in DOMAIN s : s[i] = x}

\* what C25 says of the views of the current state
C25_Calls ==
    /\ \A n \in PageArgs : \A m \in PageArgs :
          LET first == get_approved_measurements(Contract, Some(n), Some(m))
              head == get_approved_measurements(Contract, Some(0), Some(n))
              both == get_approved_measurements(Contract, Some(0), Some(n + m))
              all == get_approved_measurements(Contract, None, None)
          IN  /\ head \o first = both
              /\ NoDuplicates(both)
              /\ Len(first) <= m
              /\ Range(first) \subseteq approved_measurements
              /\ n >= Cardinality(approved_measurements) => first = <<>>
              /\ n + m >= Cardinality(approved_measurements) =>
                    Range(both) = approved_measurements
              /\ Len(both) = IF n + m < Len(all) THEN n + m ELSE Len(all)
              /\ get_approved_measurements(Contract, Some(n), None)
                    = SubSeq(all, n + 1, Len(all))
    /\ \A listed \in Orderings(approved_measurements) :
          \A n \in PageArgs : \A m \in PageArgs :
              /\ SkipTake(listed, 0, n) \o SkipTake(listed, n, m)
                    = SkipTake(listed, 0, n + m)
              /\ Len(SkipTake(listed, n, m)) <= m
              /\ n >= Len(listed) => SkipTake(listed, n, m) = <<>>

\* C25: with no mutation between the calls, get_approved_measurements(0, n)
\* followed by get_approved_measurements(n, m) is, concatenated, exactly
\* get_approved_measurements(0, n + m), with no duplicate and no omission,
\* for every approval set and all n and m; a page has at most limit elements
\* and an offset past the end gives the empty list.
C25_PaginationStable ==
    /\ QuietTwin
    /\ Quiet => C25_Calls

C25_Witness ==
    /\ Quiet
    /\ get_approved_measurements(Contract, Some(0), Some(1)) = <<DefaultMeasurements>>
    /\ get_approved_measurements(Contract, Some(1), Some(1)) = <<NonDefaultMeasurements>>
    /\ get_approved_measurements(Contract, Some(1), Some(2)) = <<NonDefaultMeasurements>>
    /\ get_approved_measurements(Contract, Some(2), Some(1)) = <<>>
    /\ Len(get_approved_measurements(Contract, Some(0), Some(2))) = 2

\* C26 as stated: whenever a request_signature of a registered agent would
\* pass the gate with an empty reason list at the current time, also when the
\* time equals valid_until_ms, get_agent reports timestamp_is_valid = true and
\* is_valid = true; timestamp_is_valid is the negation of the gate's expiry
\* condition valid_until_ms < now.
C26_AsStated ==
    \A a \in DOMAIN agents :
        LET view == get_agent(Contract, a, block_timestamp_ms)[1]
        IN  /\ GatePasses(Contract, a, block_timestamp_ms) =>
                  view.timestamp_is_valid /\ view.is_valid
            /\ view.timestamp_is_valid
                  <=> ~(agents[a].valid_until_ms < block_timestamp_ms)

\* the state in which the gate and the view part: the time is valid_until_ms
C26_Witness ==
    \E a \in DOMAIN agents :
        LET view == get_agent(Contract, a, block_timestamp_ms)[1]
        IN  /\ agents[a].valid_until_ms = block_timestamp_ms
            /\ GatePasses(Contract, a, block_timestamp_ms)
            /\ Dispatches(request_signature(Contract, a, block_timestamp_ms,
                                            "path", "test_payload", "Ecdsa"))
            /\ view.measurements_are_approved
            /\ view.ppid_is_approved
            /\ ~view.timestamp_is_valid
            /\ ~view.is_valid

\* C27 as stated: in attested mode and in local mode, if get_agent reports
\* is_valid = true then a request_signature by that agent in the same state at
\* the same time passes the gate and the record is not deleted.
C27_AsStated ==
    \A a \in DOMAIN agents :
        get_agent(Contract, a, block_timestamp_ms)[1].is_valid =>
            /\ GatePasses(Contract, a, block_timestamp_ms)
            /\ \A out \in RequestOutcomes(Contract, a, block_timestamp_ms) :
                  a \in DOMAIN out.self.agents

\* what C27 says of the calls that can be made in the current state
C27_Calls ==
    \A a \in DOMAIN agents :
        LET view == get_agent(Contract, a, block_timestamp_ms)[1]
        IN  view.is_valid =>
              IF requires_tee \/ a \in whitelisted_agents_for_local
              THEN /\ GatePasses(Contract, a, block_timestamp_ms)
                   /\ \A out \in RequestOutcomes(Contract, a, block_timestamp_ms) :
                         /\ a \in DOMAIN out.self.agents
                         /\ out.self = Contract
                         /\ out.events = <<>>
                   /\ \A key_type \in {"Ecdsa", "Eddsa"} :
                         Dispatches(request_signature(Contract, a, block_timestamp_ms,
                                        "path", "test_payload", key_type))
              ELSE \A out \in RequestOutcomes(Contract, a, block_timestamp_ms) :
                       /\ a \notin DOMAIN out.self.agents
                       /\ out.events
                             = <<AgentRemoved(a, <<"NotWhitelistedForLocal">>)>>

\* C27: if get_agent reports is_valid = true for a registered agent, then in
\* attested mode, and in local mode while the agent is on the local whitelist,
\* a request_signature by that agent in the same state at the same time
\* passes the gate and the record is not deleted; in local mode off the
\* whitelist the request is denied for NotWhitelistedForLocal alone.
C27_ValidViewPassesGate ==
    /\ QuietTwin
    /\ Quiet => C27_Calls

C27_Witness ==
    /\ requires_tee
    /\ result = "promise"
    /\ promise[1].method = "sign"
    /\ block_timestamp_ms = 1
    /\ get_agent(Contract, promise[1].agent, block_timestamp_ms)[1].is_valid
    /\ get_agent(Contract, promise[1].agent, block_timestamp_ms)[1].valid_until_ms = 2

\* what C30 says of the calls that can be made in the current state
C30_Calls ==
    ~requires_tee =>
        \A a \in DOMAIN agents :
            LET off == remove_agent_from_whitelist_for_local(Contract, owner_id, a)
            IN  /\ off.result = Unit <=> a \in whitelisted_agents_for_local
                /\ off.self.agents = agents
                /\ off.events = <<>>
                /\ off.result = Unit =>
                      /\ a \notin off.self.whitelisted_agents_for_local
                      /\ get_agent(off.self, a, block_timestamp_ms)
                            = get_agent(Contract, a, block_timestamp_ms)
                      /\ \A t \in block_timestamp_ms..MaxTime :
                            \A denied \in RequestOutcomes(off.self, a, t) :
                                /\ Fails(denied)
                                /\ ~Dispatches(denied)
                                /\ a \notin DOMAIN denied.self.agents
                                /\ Len(denied.events) = 1
                                /\ denied.events[1].event = "agent_removed"
                                /\ denied.events[1].account_id = a
                                /\ "NotWhitelistedForLocal"
                                      \in Range(denied.events[1].reasons)
                                /\ a \notin denied.self.whitelisted_agents_for_local
                                /\ \A call \in RegisterCalls :
                                      LET again == register_agent(denied.self, a, t,
                                                                  call[1], call[2])
                                      IN  /\ again.result # "true"
                                          /\ call[1] >= storage_cost =>
                                                again.result = "Agent needs to be whitelisted for local mode"
                                          /\ again.self = denied.self
                                          /\ a \notin DOMAIN again.self.agents

\* C30: in local mode remove_agent_from_whitelist_for_local of a registered
\* agent leaves its record stored; the agent's next request_signature is
\* denied, deletes the record and emits one removal event whose reasons
\* contain NotWhitelistedForLocal; a following register_agent by that identity
\* fails while it is off the whitelist.
C30_WhitelistRemovalRevokes ==
    /\ QuietTwin
    /\ Quiet => C30_Calls
    /\ \A i \in DOMAIN events :
          (events[i].event = "agent_removed"
             /\ "NotWhitelistedForLocal" \in Range(events[i].reasons)) =>
              /\ ~requires_tee
              /\ events[i].account_id \notin whitelisted_agents_for_local
              /\ events[i].account_id \notin DOMAIN agents

C30_Witness ==
    /\ ~requires_tee
    /\ result = Unit
    /\ events = <<>>
    /\ SentinelsApproved
    /\ \E a \in DOMAIN agents :
          /\ a \notin whitelisted_agents_for_local
          /\ agents[a].valid_until_ms > block_timestamp_ms
          /\ whitelisted_agents_for_local # {}

\* the result of a scheduled sign call can arrive now, whatever the state is
C21_CanArrive ==
    \A c \in BagToSet(in_flight) :
        c.call.method = "sign" =>
            /\ ENABLED Run(c, signer_replied(Contract, c.call))
            /\ ENABLED Run(c, signer_failed(Contract, c.call))

\* a step keeps every scheduled sign call as it is, unless the step is the
\* arrival of that call's result, which runs no code of the contract
C21_Kept ==
    \A c \in BagToSet(in_flight) :
        c.call.method = "sign" =>
            \/ CopiesIn(c, in_flight') >= CopiesIn(c, in_flight)
            \/ /\ in_flight' = in_flight (-) SetToBag({c})
               /\ UNCHANGED contractVars
               /\ result' \in {"signature", ExternalCallError}
               /\ events' = <<>>
               /\ promise' = <<>>

\* request_signature returns when the call is scheduled, not when it is answered
C21_Scheduled ==
    \A i \in DOMAIN promise' :
        promise'[i].method = "sign" =>
            /\ result' = "promise"
            /\ CopiesIn([call |-> promise'[i], signer_id |-> promise'[i].agent],
                        in_flight')
                  = 1 + CopiesIn([call |-> promise'[i], signer_id |-> promise'[i].agent],
                                 in_flight)

C28_Calls ==
    \A predecessor \in Accounts \cup {CurrentAccount} : \A reasons \in ReasonLists :
        LET out == fail_on_invalid_agent(Contract, predecessor, reasons)
        IN  /\ out.self = Contract
            /\ out.events = <<>>
            /\ out.promise = <<>>
            /\ out.result = IF predecessor = CurrentAccount
                            THEN "Invalid agent"
                            ELSE "Method fail_on_invalid_agent is private"

\* the step in which a scheduled fail_on_invalid_agent runs
C28_FailureRuns ==
    \E c \in BagToSet(in_flight) :
        /\ c.call.method = "fail_on_invalid_agent"
        /\ in_flight' = in_flight (-) SetToBag({c})

\* the step of a request_signature call whose gate found a reason: the
\* record is gone and the removal event is out when the call has been
\* processed, with the failure only scheduled
C28_Revokes ==
    \A a \in DOMAIN agents :
        (/\ Len(promise') = 1
         /\ promise'[1].method = "fail_on_invalid_agent"
         /\ result' = "promise"
         /\ a \notin DOMAIN agents')
        => /\ Len(events') = 1
           /\ events'[1] = AgentRemoved(a, events'[1].reasons)
           /\ events'[1].reasons \in ReasonLists
           /\ agents' = [b \in DOMAIN agents \ {a} |-> agents[b]]
           /\ CopiesIn([call |-> [method |-> "fail_on_invalid_agent",
                                  receiver |-> CurrentAccount],
                        signer_id |-> a], in_flight')
                 = 1 + CopiesIn([call |-> [method |-> "fail_on_invalid_agent",
                                           receiver |-> CurrentAccount],
                                 signer_id |-> a], in_flight)

\* when the scheduled failure runs it fails and every record, the one its
\* identity registered again in between included, stays as it is
C28_FailureKeepsState ==
    C28_FailureRuns =>
        /\ UNCHANGED contractVars
        /\ result' = "Invalid agent"
        /\ events' = <<>>
        /\ promise' = <<>>

\* C28: the gate signals its denial by a deferred self-call
\* (fail_on_invalid_agent) that always fails and changes no state; the failure
\* does not undo the revocation: when the revoking request_signature call has
\* been processed the record is deleted and the removal event emitted, whether
\* or not the deferred failure has run; and the deferred failure never deletes
\* or alters a record the same identity registered again in between.
C28_DenialIsDeferredFailure ==
    /\ []C28_Calls
    /\ [][C28_Revokes /\ C28_FailureKeepsState]_vars

C28_Witness ==
    /\ result = "Invalid agent"
    /\ \E c \in BagToSet(in_flight) :
          /\ c.call.method = "fail_on_invalid_agent"
          /\ c.signer_id \in DOMAIN agents
          /\ agents[c.signer_id].valid_until_ms > block_timestamp_ms

\* every call that can be made in the current state
C29_Outcomes ==
    UNION {OwnerCallOutcomes(Contract, p)
           \cup {Register(p, call) : call \in RegisterCalls}
           \cup RequestOutcomes(Contract, p, block_timestamp_ms)
           \cup {fail_on_invalid_agent(Contract, q, reasons) :
                    q \in {p, CurrentAccount}, reasons \in ReasonLists}
           : p \in Accounts}

\* a call deletes the record of a exactly when it emits a removal event for
\* a, and then exactly one; no removal event has an empty reason list; the
\* gate never gives ManualRemoval as a reason
C29_Calls ==
    /\ \A out \in C29_Outcomes : \A a \in AccountIds :
          /\ CountOf(out.events, "agent_removed", a)
                = IF a \in DOMAIN agents /\ a \notin DOMAIN out.self.agents
                  THEN 1 ELSE 0
          /\ \A i \in DOMAIN out.events :
                out.events[i].event = "agent_removed" => out.events[i].reasons # <<>>
    /\ \A p \in Accounts :
          \A out \in RequestOutcomes(Contract, p, block_timestamp_ms) :
              \A i \in DOMAIN out.events :
                  out.events[i].event = "agent_removed"
                      => "ManualRemoval" \notin Range(out.events[i].reasons)

\* the removal events logged for an identity, plus one if it holds a record
\* now, never exceed its successful registrations
C29_Counts ==
    \A a \in Accounts :
        /\ event_log[a].removed <= event_log[a].registered
        /\ a \in DOMAIN agents => event_log[a].removed < event_log[a].registered

\* C29: removal events and deletions of a record correspond one to one: every
\* deletion (by the gate or by remove_agent) emits exactly one removal event
\* for that identity with a non-empty reason list, no removal event is emitted
\* without a deletion in the same call, gate-emitted events never contain
\* ManualRemoval, and for every identity the number of removal events never
\* exceeds the number of its successful registrations.
C29_RemovalEventsMatchDeletions ==
    /\ C29_Calls
    /\ C29_Counts

C29_Witness ==
    /\ event_log[ImplicitA] = [registered |-> MaxRegistrations,
                               removed |-> MaxRegistrations]
    /\ event_log[OwnerAccount].removed = 1
    /\ Len(events) = 1
    /\ events[1].event = "agent_removed"
    /\ events[1].account_id = ImplicitA
    /\ events[1].reasons # <<"ManualRemoval">>
    /\ ImplicitA \notin DOMAIN agents

\* what C31 says of the whitelist_agent_for_local calls that can be made in
\* the current state
C31_Calls ==
    \A p \in Accounts : \A a \in AccountIds :
        LET out == whitelist_agent_for_local(Contract, p, a)
            again == whitelist_agent_for_local(out.self, p, a)
            now == block_timestamp_ms
        IN  /\ out.self = [Contract EXCEPT !.whitelisted_agents_for_local =
                                               out.self.whitelisted_agents_for_local]
            /\ out.events = <<>>
            /\ out.promise = <<>>
            /\ out.result = Unit =>
                  /\ out.self.whitelisted_agents_for_local
                        = whitelisted_agents_for_local \cup {a}
                  /\ out.self.agents = agents
                  /\ get_agent(out.self, a, now) = get_agent(Contract, a, now)
                  /\ a \notin DOMAIN agents => get_agent(out.self, a, now) = None
                  /\ get_agents(out.self, now) = get_agents(Contract, now)
                  /\ {v.account_id : v \in Range(get_agents(out.self, now))}
                        = DOMAIN agents
                  /\ Len(get_agents(out.self, now)) = Cardinality(DOMAIN agents)
                  /\ again.result = Unit
                  /\ again.self = out.self
                  /\ Cardinality(again.self.whitelisted_agents_for_local)
                        = Cardinality(whitelisted_agents_for_local \cup {a})

\* C31: the local whitelist and the agents map are independent:
\* whitelist_agent_for_local changes only the whitelist (it creates no record,
\* so get_agent of a whitelisted but unregistered identity is None and
\* get_agents lists registered agents only), whitelisting an already
\* registered agent leaves its record unchanged, and whitelisting the same
\* identity twice leaves one whitelist member.
C31_WhitelistIndependent ==
    /\ QuietTwin
    /\ Quiet => C31_Calls
    /\ \A a \in whitelisted_agents_for_local \ DOMAIN agents :
          get_agent(Contract, a, block_timestamp_ms) = None

\* one identity whitelisted without a record, another whitelisted with one
C31_Witness ==
    /\ Quiet
    /\ ImplicitA \in whitelisted_agents_for_local
    /\ ImplicitA \notin DOMAIN agents
    /\ OwnerAccount \in whitelisted_agents_for_local
    /\ OwnerAccount \in DOMAIN agents
    /\ Len(get_agents(Contract, block_timestamp_ms)) = 1

\* C33 as stated: approve_ppids and remove_ppids are owner-only in every
\* iteration of the contract, the agent-template contract included: a call by
\* an identity other than the owner fails and leaves approved_ppids unchanged.
C33_AsStated ==
    \A p \in Accounts \ {owner_id} : \A ids \in PpidLists :
        \A out \in {approve_ppids(Contract, p, ids),
                    remove_ppids(Contract, p, ids),
                    agent_template_approve_ppids(Contract, p, ids),
                    agent_template_remove_ppids(Contract, p, ids)} :
            /\ Fails(out)
            /\ out.self.approved_ppids = approved_ppids

\* a state in which a caller that is not the owner approves one platform id
\* and un-approves another through the agent-template methods, while the
\* methods of the current contract refuse the caller
C33_Witness ==
    \E p \in Accounts \ {owner_id} :
        /\ approved_ppids = {NonDefaultPpid}
        /\ approve_ppids(Contract, p, <<DefaultPpid>>).result = NotOwner
        /\ remove_ppids(Contract, p, <<NonDefaultPpid>>).result = NotOwner
        /\ agent_template_approve_ppids(Contract, p, <<DefaultPpid>>).result = Unit
        /\ DefaultPpid \in agent_template_approve_ppids(Contract, p, <<DefaultPpid>>)
                               .self.approved_ppids
        /\ agent_template_remove_ppids(Contract, p, <<NonDefaultPpid>>)
                               .self.approved_ppids = {}

\* the list names no id more than once
NoRepeats(ids) == \A i, j \in DOMAIN ids : ids[i] = ids[j] => i = j

\* C34 as stated: remove_ppids by the owner succeeds and removes exactly the
\* listed ids whenever every id of the list is in approved_ppids when the call
\* starts, also when the list names the same id more than once.
C34_AsStated ==
    \A ids \in PpidLists :
        Range(ids) \subseteq approved_ppids =>
            LET out == remove_ppids(Contract, owner_id, ids)
            IN  /\ out.result = Unit
                /\ out.self.approved_ppids = approved_ppids \ Range(ids)

\* what the amended C34 says of the calls that can be made in the current state
C34_Calls ==
    \A ids \in PpidLists :
        Range(ids) \subseteq approved_ppids =>
            LET out == remove_ppids(Contract, owner_id, ids)
            IN  IF NoRepeats(ids)
                THEN /\ out.result = Unit
                     /\ out.self = [Contract EXCEPT !.approved_ppids =
                                                       approved_ppids \ Range(ids)]
                     /\ out.events = <<>>
                     /\ out.promise = <<>>
                ELSE /\ out.result = "PPID not in approved list"
                     /\ out.self = Contract

\* C34 (amended): remove_ppids by the owner succeeds and removes exactly the
\* listed ids whenever every id of the list is in approved_ppids when the call
\* starts and the list names no id more than once; a list that names an
\* approved id twice fails with 'PPID not in approved list' and removes
\* nothing.
C34_RemovesListedOnce ==
    /\ QuietTwin
    /\ Quiet => C34_Calls

\* both ids approved: the list of the two is removed, the list naming one of
\* them twice is refused
C34_Witness ==
    /\ Quiet
    /\ approved_ppids = Ppids
    /\ remove_ppids(Contract, owner_id, <<DefaultPpid, NonDefaultPpid>>)
          .self.approved_ppids = {}
    /\ remove_ppids(Contract, owner_id, <<DefaultPpid, DefaultPpid>>).result
          = "PPID not in approved list"

\* after a successful update_mpc_contract_id(x) in the current state, every
\* request_signature that dispatches targets x; and no call but a successful
\* update_mpc_contract_id changes the endpoint
C35_Calls ==
    /\ \A x \in MpcAccounts :
          LET updated == update_mpc_contract_id(Contract, owner_id, x)
          IN  /\ updated.result = Unit
              /\ updated.self.mpc_contract_id = x
              /\ \A a \in Accounts :
                    \A out \in RequestOutcomes(updated.self, a, block_timestamp_ms) :
                        \A i \in DOMAIN out.promise :
                            out.promise[i].method = "sign" =>
                                /\ out.promise[i].receiver = x
                                /\ x # mpc_contract_id =>
                                      out.promise[i].receiver # mpc_contract_id
    /\ \A out \in C29_Outcomes :
          out.self.mpc_contract_id # mpc_contract_id =>
              out \in {update_mpc_contract_id(Contract, owner_id, x) : x \in MpcAccounts}

\* a delegated call is dispatched to the endpoint configured when it is
\* dispatched
C35_DispatchedToCurrent ==
    \A i \in DOMAIN promise' :
        promise'[i].method = "sign" =>
            /\ promise'[i].receiver = mpc_contract_id
            /\ mpc_contract_id' = mpc_contract_id

\* a step that changes the endpoint leaves the scheduled calls, and so their
\* receivers, as they are
C35_EarlierKept ==
    mpc_contract_id' # mpc_contract_id =>
        /\ in_flight' = in_flight
        /\ result' = Unit
        /\ promise' = <<>>

\* C35: after a successful update_mpc_contract_id(x), every delegated call
\* dispatched by a later request_signature targets x and none targets the
\* previous endpoint; calls dispatched before the update still target the
\* previous endpoint.
C35_EndpointUpdateRedirects ==
    /\ []C35_Calls
    /\ [][C35_DispatchedToCurrent /\ C35_EarlierKept]_vars

\* one call dispatched before the update and one after it, both scheduled
C35_Witness ==
    /\ mpc_contract_id = "v1.signer"
    /\ \E c \in BagToSet(in_flight) : \E d \in BagToSet(in_flight) :
          /\ c.call.method = "sign"
          /\ c.call.receiver = "mpc-contract"
          /\ d.call.method = "sign"
          /\ d.call.receiver = "v1.signer"
    /\ promise # <<>>
    /\ promise[1].method = "sign"
    /\ promise[1].receiver = "v1.signer"

\* the contract with another local whitelist
WithWhitelist(self, w) == [self EXCEPT !.whitelisted_agents_for_local = w]

\* what C32 says of the calls that can be made in the current state
C32_Calls ==
    /\ \A out \in C29_Outcomes : out.self.requires_tee = requires_tee
    /\ requires_tee =>
          /\ \A p \in Accounts : \A a \in AccountIds :
                /\ whitelist_agent_for_local(Contract, p, a)
                      = Panic(Contract, "Whitelisting agents is not supported for TEE")
                /\ remove_agent_from_whitelist_for_local(Contract, p, a)
                      = Panic(Contract, "Removing agents is not supported for TEE")
          /\ \A w \in SUBSET Accounts : \A a \in Accounts :
                /\ \A call \in RegisterCalls :
                      LET out == Register(a, call)
                          other == register_agent(WithWhitelist(Contract, w), a,
                                                  block_timestamp_ms, call[1], call[2])
                      IN  other = [out EXCEPT !.self = WithWhitelist(out.self, w)]
                /\ \A path \in Paths : \A payload \in Payloads : \A key_type \in KeyTypes :
                      LET out == request_signature(Contract, a, block_timestamp_ms,
                                                   path, payload, key_type)
                          other == request_signature(WithWhitelist(Contract, w), a,
                                                     block_timestamp_ms,
                                                     path, payload, key_type)
                      IN  other = [out EXCEPT !.self = WithWhitelist(out.self, w)]

\* C32: the mode is fixed at initialization and the whitelist exists in local
\* mode only: no operation changes requires_tee; when requires_tee is true
\* whitelist_agent_for_local and remove_agent_from_whitelist_for_local fail
\* for every caller, the owner included, so in attested mode the local
\* whitelist is empty in every reachable state and has no influence on
\* registration or on the gate.
C32_ModeFixedWhitelistLocal ==
    /\ QuietTwin
    /\ Quiet => C32_Calls
    /\ requires_tee => whitelisted_agents_for_local = {}
    /\ result \in {"Whitelisting agents is not supported for TEE",
                   "Removing agents is not supported for TEE"}
          => requires_tee /\ events = <<>> /\ promise = <<>>

\* attested mode: the owner's whitelisting was refused while an agent is
\* registered
C32_Witness ==
    /\ requires_tee
    /\ result = "Whitelisting agents is not supported for TEE"
    /\ whitelisted_agents_for_local = {}
    /\ ImplicitA \in DOMAIN agents
    /\ whitelist_agent_for_local(Contract, owner_id, ImplicitA).result = result

\* what C36 says of the setter calls the owner can make in the current state
C36_Calls ==
    LET info == get_contract_info(Contract)
    IN  /\ \A expiration \in Durations :
              LET out == update_attestation_expiration_time(Contract, owner_id, expiration)
              IN  /\ out = Ok([Contract EXCEPT
                                  !.attestation_expiration_time_ms = expiration])
                  /\ get_contract_info(out.self)
                        = [info EXCEPT !.attestation_expiration_time_ms = expiration]
        /\ \A new_owner_id \in Accounts :
              LET out == update_owner_id(Contract, owner_id, new_owner_id)
              IN  /\ out = Ok([Contract EXCEPT !.owner_id = new_owner_id])
                  /\ get_contract_info(out.self)
                        = [info EXCEPT !.owner_id = new_owner_id]
        /\ \A new_mpc_contract_id \in MpcAccounts :
              LET out == update_mpc_contract_id(Contract, owner_id, new_mpc_contract_id)
              IN  /\ out = Ok([Contract EXCEPT !.mpc_contract_id = new_mpc_contract_id])
                  /\ get_contract_info(out.self)
                        = [info EXCEPT !.mpc_contract_id = new_mpc_contract_id]

\* C36: each owner configuration setter changes exactly its own field:
\* update_attestation_expiration_time only attestation_expiration_time_ms,
\* update_owner_id only owner_id, update_mpc_contract_id only mpc_contract_id;
\* requires_tee, the approval sets, the whitelist and every record are
\* unchanged, and get_contract_info returns the updated value afterwards.
C36_SettersChangeOwnField ==
    /\ QuietTwin
    /\ Quiet => C36_Calls
    /\ get_contract_info(Contract)
          = [requires_tee |-> requires_tee,
             attestation_expiration_time_ms |-> attestation_expiration_time_ms,
             owner_id |-> owner_id,
             mpc_contract_id |-> mpc_contract_id]

\* owner and endpoint were both changed while records, approvals and the
\* whitelist are in place
C36_Witness ==
    /\ Quiet
    /\ get_contract_info(Contract).owner_id = ImplicitA
    /\ get_contract_info(Contract).mpc_contract_id = "v1.signer"
    /\ DOMAIN agents # {}
    /\ approved_measurements # {}
    /\ approved_ppids # {}
    /\ whitelisted_agents_for_local # {}

DepositError == "Attached deposit must be greater than storage cost"

\* what C37 says of the register_agent calls that can be made in the current
\* state, by identities with and without a record
C37_Calls ==
    \A a \in Accounts : \A call \in RegisterCalls :
        LET out == Register(a, call)
        IN  IF call[1] < storage_byte_cost * STORAGE_BYTES_TO_REGISTER
            THEN /\ out.result = DepositError
                 /\ out.self = Contract
                 /\ out.events = <<>>
                 /\ out.promise = <<>>
            ELSE /\ out.result # DepositError
                 /\ out.result = "true" <=> verify_attestation(Contract, a, call[2]).ok

\* C37: register_agent requires an attached deposit of at least
\* storage_byte_cost times 486 bytes: with a smaller deposit the call fails
\* before the attestation is verified, no record is created or refreshed and
\* no registration event is emitted, even when the caller is whitelisted and
\* the attestation would verify; the same deposit is required again on every
\* re-registration.
C37_DepositRequired ==
    /\ QuietTwin
    /\ Quiet => C37_Calls
    /\ STORAGE_BYTES_TO_REGISTER = 486
    /\ result = DepositError => events = <<>> /\ promise = <<>>

\* a re-registration that would verify was refused for its deposit, and the
\* record it would refresh is as it was
C37_Witness ==
    /\ result = DepositError
    /\ block_timestamp_ms > 0
    /\ \E a \in DOMAIN agents : \E attestation \in Attestations :
          /\ verify_attestation(Contract, a, attestation).ok
          /\ Register(a, <<storage_cost - 1, attestation>>).result = result
          /\ Register(a, <<storage_cost, attestation>>).result = "true"
          /\ Register(a, <<storage_cost, attestation>>).self.agents[a] # agents[a]

====
